---------------------------- MODULE Spec2Model ----------------------------
(***************************************************************************)
(* Verification model of the animation core of the portfolio page:        *)
(*   - DigitalRainRenderer (js/digital-rain.js): the frame-throttled       *)
(*     render loop driven by requestAnimationFrame;                        *)
(*   - AnimationController / GlobalScrollObserver (js/animations.js): the  *)
(*     one-shot intersection observers, the typewriter sessions and the    *)
(*     cycling hero typewriter.                                            *)
(*   - ProjectCardController (js/animations.js): the pointer-driven tilt  *)
(*     of the project cards.                                               *)
(*   - the start-up scripts (js/main.js, unnamed/part_000) and the         *)
(*     DOMContentLoaded handler of js/digital-rain.js;                     *)
(*   - ContactFormController (js/contact-form.js): validation and the      *)
(*     simulated submission.                                               *)
(* Each subsystem has its own specification (SpecRain, SpecGrid, SpecFall, *)
(* SpecPage, SpecCycle, SpecForever, SpecObs, SpecReveal, SpecType,        *)
(* SpecPair, SpecTilt, SpecBoot, SpecForm); the variables of the other     *)
(* subsystems stay at their initial values.                                *)
(***************************************************************************)
EXTENDS Integers, Sequences, FiniteSets, TLC

VARIABLES
  \* ---- DigitalRainRenderer ----
  isRunning,      \* this.isRunning
  animationId,    \* this.animationId (NoId models null)
  lastFrameTime,  \* this.lastFrameTime
  frames,         \* number of draw() calls so far
  surface,        \* what was painted last on the canvas
  rafPending,     \* the platform's pending requestAnimationFrame callbacks
  now,            \* the platform clock (performance.now()), in thirds of a ms
  afterStop,      \* stop() has returned and start() was not called since
  started,        \* the clock and the frame count when start() last took effect
  rainOp,         \* the operation that ran last on the renderer
  \* ---- DigitalRainRenderer: the columns ----
  config,         \* this.config
  canvasWidth,    \* this.canvas.width
  canvasHeight,   \* this.canvas.height
  columns,        \* this.columns
  drops,          \* this.drops, in 1/10000 of a row
  speeds,         \* this.speeds, in 1/10000 of a row per frame
  characters,     \* this.characters
  charChangeCounters, \* this.charChangeCounters
  painted,        \* the glyphs the last draw() passed to fillText
  resizes,        \* resize() calls so far
  \* ---- the page that starts the renderer ----
  prefersReduced, \* matchMedia('(prefers-reduced-motion: reduce)').matches
  rainOwner,      \* the script that starts the renderer under study
  rainLoaded,     \* the script's start-up code has run
  rainListener,   \* a 'change' listener for the preference is registered
  \* ---- AnimationController: hero cycling typewriter ----
  reducedMotion,  \* this.reducedMotion
  acObserver,     \* this.observer: "null" or "live"
  acPhase,        \* "new" (constructed), "ready" (init() ran), "destroyed"
  clock,          \* simulated time of the page's timers, in ms
  hasHero,        \* the page has a '.hero-section .typewriter' element
  cyTexts,        \* texts argument of the cycling session
  cySpeed,        \* speed argument of the cycling session
  textIndex,      \* closure variable textIndex
  charIndex,      \* closure variable charIndex
  isDeleting,     \* closure variable isDeleting
  heroText,       \* textContent of the hero typewriter element
  heroCursor,     \* the hero element still shows its cursor (border-right)
  cyTimer,        \* the session's pending setTimeout, or NoTimer
  cycles,         \* times the displayed text went from non-empty to empty
  cyLast,         \* what the last delayed step did to the text
  \* ---- reveal targets (DOM elements) and their timers ----
  elems,          \* element -> its classes, text, dataset and style
  timers,         \* pending setTimeout callbacks of the reveal triggers
  revOp,          \* the trigger or callback that ran last, and its element
  sessions,       \* typewriter sessions started so far
  \* ---- the IntersectionObserver under study and its owner ----
  obsOwner,       \* "AnimationController" or "GlobalScrollObserver"
  gsReducedMotion, \* GlobalScrollObserver.reducedMotion
  gsObserver,     \* GlobalScrollObserver.observer: "null" or "live"
  targets,        \* the observer's registrations, in observe() order
  inView,         \* element -> at least 10% of it is in the viewport
  queue,          \* the observer's queued entries
  phase,          \* element -> "pending", "fired", "left" or "reentered"
  \* ---- ProjectCardController and the project cards ----
  tiltReduced,    \* this.reducedMotion
  tiltPhase,      \* "new" (constructed), "ready" (init() ran), "destroyed"
  tiltWired,      \* init() registered the cards' and the 'change' listeners
  tiltCards,      \* this.cards
  cards,          \* card -> its style.transform and style.transition
  hovered,        \* the card under the pointer, or Null
  tiltOp,         \* the event handled last, and the card's style before it
  \* ---- the start-up script and the page it runs on ----
  bootScript,     \* "main.js" or "part_000"
  present,        \* the classes and elements the page has
  bootPhase,      \* "loading", then the timers of hideLoadingScreen() left
  controllers,    \* the components whose init function returned a controller
  wired,          \* the components that were set up
  screen,         \* what the loading screen and the matrix entry show
  digitalRainInstance, \* what the handler of js/digital-rain.js left behind
  \* ---- ContactFormController and the contact form ----
  fields,         \* field -> its value and whether it has the class 'error'
  errors,         \* field -> its error element's text and visibility
  formMessage,    \* the form message element's text and classes
  submissions,    \* simulated submissions whose 500 ms have not passed
  formOp          \* the handler that ran last, and what it decided

rainVars == <<isRunning, animationId, lastFrameTime, frames, surface,
              rafPending, now, afterStop, started, rainOp>>

gridVars == <<config, canvasWidth, canvasHeight, columns, drops, speeds,
              characters, charChangeCounters, painted, resizes>>

pageVars == <<prefersReduced, rainOwner, rainLoaded, rainListener>>

\* Everything that belongs to the canvas of the digital rain.
canvasVars == <<rainVars, gridVars, pageVars>>

acVars == <<reducedMotion, acObserver, acPhase, clock>>

cycleVars == <<hasHero, cyTexts, cySpeed, textIndex, charIndex, isDeleting,
               heroText, heroCursor, cyTimer, cycles, cyLast>>

domVars == <<elems, timers, revOp, sessions>>

obsVars == <<obsOwner, gsReducedMotion, gsObserver, targets, inView,
             queue, phase>>

tiltVars == <<tiltReduced, tiltPhase, tiltWired, tiltCards, cards, hovered,
              tiltOp>>

\* Everything outside the canvas of the digital rain and the project cards.
revealVars == <<acVars, cycleVars, domVars, obsVars>>

bootVars == <<bootScript, present, bootPhase, controllers, wired, screen,
              digitalRainInstance>>

formVars == <<fields, errors, formMessage, submissions, formOp>>

\* The start-up script and the contact form.
siteVars == <<bootVars, formVars>>

vars == <<canvasVars, acVars, cycleVars, domVars, obsVars, tiltVars,
          siteVars>>

-----------------------------------------------------------------------------
(***************************************************************************)
(* DigitalRainRenderer: configuration, resize() and draw()                 *)
(***************************************************************************)

\* Largest number of resize() calls followed.
MaxResizes == 2

\* Positions and speeds are kept in ten-thousandths of a row, so that every
\* product of a random number with a speed range is exact.
RowUnit == 10000

\* Math.random() results, in thousandths; the largest stands for the values
\* just below 1.
RandomValues == <<0, 999, 500, 980, 250>>

\* A stream of Math.random() results is the cyclic sequence RandomValues
\* read from an offset.
Seeds == 0..(Len(RandomValues) - 1)

\* The k-th (from 0) result of the stream.
Rand(seed, k) == RandomValues[((seed + k) % Len(RandomValues)) + 1]

\* The default configuration, and one with every option given.
DefaultConfig ==
  [fontSize |-> 20, characters |-> <<"0", "1">>,
   minSpeed |-> 2000, maxSpeed |-> 6000]

Configs ==
  { DefaultConfig,
    [fontSize |-> 16, characters |-> <<"x", "y", "z">>,
     minSpeed |-> 5000, maxSpeed |-> 5000] }

\* window.innerWidth and window.innerHeight at a resize.
WindowSizes == { <<1024, 768>>, <<375, 667>>, <<40, 20>>, <<10, 20>> }

\* minSpeed + Math.random() * (maxSpeed - minSpeed)
RandomSpeed(r) ==
  config.minSpeed + (r * (config.maxSpeed - config.minSpeed)) \div 1000

\* Math.random() * -100
RandomDropBelow(r) == r * 100 * (RowUnit \div 1000)

RandomDrop(r) == -(r * 100 * (RowUnit \div 1000))

\* Math.floor(Math.random() * 10) + 5
RandomCounterFromZero(r) == (r * 10) \div 1000

RandomCounter(r) == ((r * 10) \div 1000) + 5

\* getRandomCharacter(): chars[Math.floor(Math.random() * chars.length)]
BadRandomCharacter(r) == "#"

getRandomCharacter(r) ==
  config.characters[((r * Len(config.characters)) \div 1000) + 1]

\* The renderer's columns after construction with the configuration cfg.
GridInit(cfg) ==
  /\ config = cfg
  /\ canvasWidth = 300
  /\ canvasHeight = 150
  /\ columns = 0
  /\ drops = <<>>
  /\ speeds = <<>>
  /\ characters = <<>>
  /\ charChangeCounters = <<>>
  /\ painted = <<>>
  /\ resizes = 0

\* The columns resize() builds for a window w pixels wide; column i takes
\* four results of the stream.
ResizeColumnsStale(w) == columns

ResizeColumns(w) == w \div config.fontSize

ResizeGrid(w, h, seed) ==
  LET n == ResizeColumns(w) IN
  /\ canvasWidth' = w
  /\ canvasHeight' = h
  /\ columns' = n
  /\ drops' = [i \in 1..n |-> RandomDrop(Rand(seed, 4 * (i - 1)))]
  /\ speeds' = [i \in 1..n |-> RandomSpeed(Rand(seed, 4 * (i - 1) + 1))]
  /\ characters' =
       [i \in 1..n |-> getRandomCharacter(Rand(seed, 4 * (i - 1) + 2))]
  /\ charChangeCounters' =
       [i \in 1..n |-> RandomCounter(Rand(seed, 4 * (i - 1) + 3))]
  /\ painted' = <<>>
  /\ resizes' = resizes + 1
  /\ UNCHANGED config

\* The four arrays and the glyphs painted so far in the current frame.
Grid ==
  [drops |-> drops, speeds |-> speeds, characters |-> characters,
   counters |-> charChangeCounters, painted |-> <<>>]

\* Speed of a column that draw() sends back to the top.
ResetSpeedDoubled(r) == 2 * RandomSpeed(r)

ResetSpeed(r) == RandomSpeed(r)

OffScreenNever(y) == FALSE

OffScreenAlways(y) == TRUE

\* y > this.canvas.height, for y = drops[i] * fontSize in 1/10000 pixels.
OffScreen(y) == y > canvasHeight * RowUnit

\* The loop of draw() from column i on; k results of the stream have been
\* taken so far.
RECURSIVE DrawColumns(_, _, _, _)
DrawColumns(i, g, seed, k) ==
  IF i > columns
    THEN g
    ELSE LET counter == g.counters[i] - 1
             change == counter <= 0
             ch == IF change THEN getRandomCharacter(Rand(seed, k))
                             ELSE g.characters[i]
             counter2 == IF change THEN RandomCounter(Rand(seed, k + 1))
                                   ELSE counter
             k1 == IF change THEN k + 2 ELSE k
             y == g.drops[i] * config.fontSize
             offScreen == OffScreen(y)
             reset == offScreen /\ Rand(seed, k1) > 975
             k2 == IF offScreen THEN k1 + 1 ELSE k1
             k3 == IF reset THEN k2 + 1 ELSE k2
         IN DrawColumns(i + 1,
              [g EXCEPT
                 !.counters[i] = counter2,
                 !.characters[i] = ch,
                 !.painted = Append(g.painted, ch),
                 !.drops[i] = IF reset THEN 0 ELSE g.drops[i] + g.speeds[i],
                 !.speeds[i] = IF reset THEN ResetSpeed(Rand(seed, k2))
                                        ELSE g.speeds[i]],
              seed, k3)

\* draw(): one frame.
Draw(seed) ==
  LET g == DrawColumns(1, Grid, seed, 0) IN
  /\ drops' = g.drops
  /\ speeds' = g.speeds
  /\ characters' = g.characters
  /\ charChangeCounters' = g.counters
  /\ painted' = g.painted
  /\ UNCHANGED <<config, canvasWidth, canvasHeight, columns, resizes>>

-----------------------------------------------------------------------------
(***************************************************************************)
(* DigitalRainRenderer: start / stop / animate                             *)
(***************************************************************************)

\* Upper end of the simulated clock, in thirds of a millisecond.
MaxNow == 1200

\* Clock advances between events, in thirds of a millisecond
\* (16.7 ms, 23.3 ms, 66.7 ms, 110 ms).
TickSteps == {50, 70, 200, 330}

NoId == 0

targetFPS == 15

\* 1000 / targetFPS milliseconds, expressed in thirds of a millisecond so
\* that the quotient is exact.
frameInterval == (1000 * 3) \div targetFPS

\* The handle requestAnimationFrame returns: a positive integer that names
\* no pending request and is not the handle the renderer still holds.
FreshId ==
  CHOOSE i \in 1..(Cardinality(rafPending) + 2) :
    i \notin rafPending /\ i # animationId

RainInit ==
  /\ isRunning = FALSE
  /\ animationId = NoId
  /\ lastFrameTime = 0
  /\ frames = 0
  /\ surface = "blank"
  /\ rafPending = {}
  /\ now = 0
  /\ afterStop = FALSE
  /\ started = [time |-> 0, frames |-> 0]
  /\ rainOp = "new"

\* Time passes with no callback of the renderer running.
Elapse(dt) ==
  /\ now + dt <= MaxNow
  /\ now' = now + dt
  /\ rainOp' = "elapse"
  /\ UNCHANGED <<isRunning, animationId, lastFrameTime, frames, surface,
                 rafPending, afterStop, started>>
  /\ UNCHANGED gridVars

\* start(): a no-op when running; otherwise marks running, reads the clock,
\* paints the initial fill and requests the first frame.
StartMissingGuard ==
  /\ isRunning' = TRUE
  /\ lastFrameTime' = now
  /\ surface' = "fill"
  /\ animationId' = FreshId
  /\ rafPending' = rafPending \cup {FreshId}
  /\ afterStop' = FALSE
  /\ started' = [time |-> now, frames |-> frames]
  /\ rainOp' = "start"
  /\ UNCHANGED <<frames, now>>
  /\ UNCHANGED gridVars

StartRenderer ==
  IF isRunning
    THEN /\ rainOp' = "start"
         /\ afterStop' = FALSE
         /\ UNCHANGED <<isRunning, animationId, lastFrameTime, frames,
                        surface, rafPending, now, started>>
    ELSE /\ isRunning' = TRUE
         /\ lastFrameTime' = now
         /\ surface' = "fill"
         /\ animationId' = FreshId
         /\ rafPending' = rafPending \cup {FreshId}
         /\ afterStop' = FALSE
         /\ started' = [time |-> now, frames |-> frames]
         /\ rainOp' = "start"
         /\ UNCHANGED <<frames, now>>

Start == StartRenderer /\ UNCHANGED gridVars

\* stop(): clears isRunning and cancels the request the renderer holds.
StopKeepsRunning ==
  /\ IF animationId # NoId
       THEN /\ rafPending' = rafPending \ {animationId}
            /\ animationId' = NoId
       ELSE UNCHANGED <<rafPending, animationId>>
  /\ afterStop' = TRUE
  /\ UNCHANGED started
  /\ rainOp' = "stop"
  /\ UNCHANGED <<isRunning, lastFrameTime, frames, surface, now>>
  /\ UNCHANGED gridVars

StopNoCancel ==
  /\ isRunning' = FALSE
  /\ afterStop' = TRUE
  /\ rainOp' = "stop"
  /\ UNCHANGED <<animationId, rafPending, lastFrameTime, frames, surface,
                 now, started>>
  /\ UNCHANGED gridVars

Stop ==
  /\ isRunning' = FALSE
  /\ IF animationId # NoId
       THEN /\ rafPending' = rafPending \ {animationId}
            /\ animationId' = NoId
       ELSE UNCHANGED <<rafPending, animationId>>
  /\ afterStop' = TRUE
  /\ UNCHANGED started
  /\ rainOp' = "stop"
  /\ UNCHANGED <<lastFrameTime, frames, surface, now>>
  /\ UNCHANGED gridVars

\* destroy(): stop(), then the renderer's 'resize' listener is taken off the
\* window; resize() stays callable on the object.
RainDestroy ==
  /\ isRunning' = FALSE
  /\ IF animationId # NoId
       THEN /\ rafPending' = rafPending \ {animationId}
            /\ animationId' = NoId
       ELSE UNCHANGED <<rafPending, animationId>>
  /\ afterStop' = TRUE
  /\ rainOp' = "destroy"
  /\ UNCHANGED <<lastFrameTime, frames, surface, now, started>>
  /\ UNCHANGED gridVars

\* animate(timestamp), the body of the requestAnimationFrame callback, given
\* the set of requests still pending once this callback was taken.
AnimateSnap(timestamp, pending, seed) ==
  IF ~isRunning
    THEN /\ rafPending' = pending
         /\ UNCHANGED <<isRunning, animationId, lastFrameTime, frames,
                        surface>>
         /\ UNCHANGED gridVars
    ELSE LET elapsed == timestamp - lastFrameTime
             id == CHOOSE i \in 1..(Cardinality(pending) + 2) :
                     i \notin pending /\ i # animationId
         IN /\ IF elapsed >= frameInterval
                 THEN /\ frames' = frames + 1
                      /\ surface' = "frame"
                      /\ Draw(seed)
                      /\ lastFrameTime' = timestamp
                 ELSE /\ UNCHANGED <<frames, surface, lastFrameTime>>
                      /\ UNCHANGED gridVars
            /\ animationId' = id
            /\ rafPending' = pending \cup {id}
            /\ UNCHANGED isRunning

AnimateEveryTick(timestamp, pending, seed) ==
  IF ~isRunning
    THEN /\ rafPending' = pending
         /\ UNCHANGED <<isRunning, animationId, lastFrameTime, frames,
                        surface>>
         /\ UNCHANGED gridVars
    ELSE LET id == CHOOSE i \in 1..(Cardinality(pending) + 2) :
                     i \notin pending /\ i # animationId
         IN /\ frames' = frames + 1
            /\ surface' = "frame"
            /\ Draw(seed)
            /\ lastFrameTime' = timestamp
            /\ animationId' = id
            /\ rafPending' = pending \cup {id}
            /\ UNCHANGED isRunning

Animate(timestamp, pending, seed) ==
  IF ~isRunning
    THEN /\ rafPending' = pending
         /\ UNCHANGED <<isRunning, animationId, lastFrameTime, frames,
                        surface>>
         /\ UNCHANGED gridVars
    ELSE LET elapsed == timestamp - lastFrameTime
             id == CHOOSE i \in 1..(Cardinality(pending) + 2) :
                     i \notin pending /\ i # animationId
         IN /\ IF elapsed >= frameInterval
                 THEN /\ frames' = frames + 1
                      /\ surface' = "frame"
                      /\ Draw(seed)
                      /\ lastFrameTime' =
                           timestamp - (elapsed % frameInterval)
                 ELSE /\ UNCHANGED <<frames, surface, lastFrameTime>>
                      /\ UNCHANGED gridVars
            /\ animationId' = id
            /\ rafPending' = pending \cup {id}
            /\ UNCHANGED isRunning

\* The platform runs a pending animation-frame callback at the next frame.
Tick(dt) ==
  /\ now + dt <= MaxNow
  /\ \E id \in rafPending, seed \in Seeds :
       /\ now' = now + dt
       /\ Animate(now + dt, rafPending \ {id}, seed)
       /\ rainOp' = "tick"
       /\ UNCHANGED <<afterStop, started>>

\* An animation-clock tick that still reaches animate() after stop()
\* returned, although its request was cancelled.
LateTick(dt) ==
  /\ afterStop
  /\ now + dt <= MaxNow
  /\ now' = now + dt
  /\ \E seed \in Seeds : Animate(now + dt, rafPending, seed)
  /\ rainOp' = "latetick"
  /\ UNCHANGED <<afterStop, started>>


\* resize(): called by init() and on every 'resize' event of the window.
Resize(w, h, seed) ==
  /\ resizes < MaxResizes
  /\ ResizeGrid(w, h, seed)
  /\ surface' = "blank"
  /\ rainOp' = "resize"
  /\ UNCHANGED <<isRunning, animationId, lastFrameTime, frames, rafPending,
                 now, afterStop, started>>

(***************************************************************************)
(* The scripts that start a renderer on the page's canvas                  *)
(***************************************************************************)

\* Both js/digital-rain.js (its DOMContentLoaded handler) and js/main.js
\* (initDigitalRain) construct, init() and start() a renderer of their own.
RainOwners == {"digital-rain.js", "main.js"}

\* new DigitalRainRenderer(canvas); init(); start()
CreateRenderer(w, h, seed) ==
  /\ ResizeGrid(w, h, seed)
  /\ isRunning' = TRUE
  /\ lastFrameTime' = now
  /\ surface' = "fill"
  /\ animationId' = FreshId
  /\ rafPending' = rafPending \cup {FreshId}
  /\ afterStop' = FALSE
  /\ started' = [time |-> now, frames |-> frames]
  /\ UNCHANGED <<frames, now>>

\* The start-up code of the owning script, run once when the DOM is ready.
PageLoad(w, h, seed) ==
  /\ ~rainLoaded
  /\ rainLoaded' = TRUE
  /\ rainOp' = "load"
  /\ UNCHANGED <<prefersReduced, rainOwner>>
  /\ IF prefersReduced
       THEN /\ IF rainOwner = "digital-rain.js"
                 THEN /\ canvasWidth' = w
                      /\ canvasHeight' = h
                      /\ surface' = "static"
                 ELSE UNCHANGED <<canvasWidth, canvasHeight, surface>>
            /\ UNCHANGED <<isRunning, animationId, lastFrameTime, frames,
                           rafPending, now, afterStop, started, rainListener>>
            /\ UNCHANGED <<config, columns, drops, speeds, characters,
                           charChangeCounters, painted, resizes>>
       ELSE /\ CreateRenderer(w, h, seed)
            /\ rainListener' = (rainOwner = "digital-rain.js")

\* The user's reduced-motion preference changes; the 'change' listener, if
\* one was registered, stops or starts the renderer.
PreferenceChange ==
  /\ rainLoaded
  /\ prefersReduced' = ~prefersReduced
  /\ UNCHANGED <<rainOwner, rainLoaded, rainListener>>
  /\ IF rainListener
       THEN IF ~prefersReduced THEN Stop ELSE Start
       ELSE /\ rainOp' = "change"
            /\ UNCHANGED <<isRunning, animationId, lastFrameTime, frames,
                           surface, rafPending, now, afterStop, started>>
            /\ UNCHANGED gridVars

\* A 'resize' event of the window reaches the renderer init() registered.
WindowResize(w, h, seed) ==
  /\ resizes > 0
  /\ Resize(w, h, seed)

-----------------------------------------------------------------------------
(***************************************************************************)
(* Reveal targets: the DOM elements the triggers act on, and the triggers  *)
(* of AnimationController as functions on the page state                   *)
(*   st = [elems, timers, sessions].                                       *)
(***************************************************************************)

Elements == {"e1", "e2"}

\* The argument of a call that passes no element.
Null == "null"

\* Cap on the typewriter sessions started in one run.
MaxSessions == 2

typewriterStartDelay == 500

scrollStartDelay == 300

scrollSpeed == 30

observerTypewriterSpeed == 50

defaultTypewriterSpeed == 100

aboutDescriptionDelay == 500

aboutAspirationsDelay == 1000

\* An element as the markup delivers it: its classes, whether it lies in
\* the hero section, its text, its data-text attribute ("" when absent) and
\* whether it has '.about-description' / '.about-aspirations' children.
\* session, sessionText and sessionStart record the typewriter session
\* started last on the element and the time of its trigger (0, "" and 0
\* when there was none).
Element(classes, hero, text, dataText, children) ==
  [classes |-> classes, hero |-> hero, text |-> text, dataText |-> dataText,
   animated |-> FALSE, session |-> 0, sessionText |-> "",
   sessionStart |-> 0,
   opacity |-> "", transform |-> "", borderRight |-> "", animation |-> "",
   width |-> "",
   description |-> IF children THEN "hidden" ELSE "absent",
   aspirations |-> IF children THEN "hidden" ELSE "absent"]

\* A pending setTimeout of a trigger: its due time and the state of the
\* closure it will run (the session it belongs to, the session's text,
\* charIndex and speed).
Timer(due, e, kind, sid, text, idx, speed) ==
  [due |-> due, el |-> e, kind |-> kind, sid |-> sid, text |-> text,
   idx |-> idx, speed |-> speed]

SetEl(st, e, el) == [st EXCEPT !.elems[e] = el]

AddTimer(st, tm) == [st EXCEPT !.timers = Append(@, tm)]

\* classList.add('visible') plus, under reduced motion, the inline styles
\* that show the element at once.
Reveal(st, e, rm, transform, stopAnimation) ==
  LET el == st.elems[e]
      shown == [el EXCEPT !.classes = @ \cup {"visible"}]
  IN SetEl(st, e,
       IF rm
         THEN [shown EXCEPT !.opacity = "1", !.transform = transform,
                            !.animation = IF stopAnimation THEN "none" ELSE @]
         ELSE shown)

triggerFadeIn(st, e, rm) == Reveal(st, e, rm, "translateY(0)", FALSE)

triggerSlideInLeft(st, e, rm) == Reveal(st, e, rm, "translateX(0)", FALSE)

triggerFadeInStagger(st, e, rm) == Reveal(st, e, rm, "translateY(0)", FALSE)

triggerPulseGlow(st, e, rm) == Reveal(st, e, rm, "scale(1)", TRUE)

triggerSkillReveal(st, e, rm) == Reveal(st, e, rm, "translateX(0)", FALSE)

\* triggerAboutAnimations(aboutContent): one timer per child present.
triggerAboutAnimations(st, e, t) ==
  LET el == st.elems[e]
      s1 == IF el.description # "absent"
              THEN AddTimer(st, Timer(t + aboutDescriptionDelay, e,
                                      "aboutDescription", 0, "", 0, 0))
              ELSE st
  IN IF el.aspirations # "absent"
       THEN AddTimer(s1, Timer(t + aboutAspirationsDelay, e,
                               "aboutAspirations", 0, "", 0, 0))
       ELSE s1

\* triggerGlitch(element)
triggerGlitch(st, e, rm) ==
  LET el == st.elems[e]
  IN IF rm THEN st
     ELSE SetEl(st, e,
            [el EXCEPT !.classes = @ \cup {"glitch"},
                       !.dataText = IF @ = "" THEN el.text ELSE @])

\* A triggerTypewriter whose first character waits for the start delay and
\* one character period.
triggerTypewriterLateStart(st, e, text, speed, rm, t) ==
  LET el == st.elems[e]
      originalText == IF text # "" THEN text ELSE el.text
  IN IF rm
       THEN SetEl(st, e, [el EXCEPT !.text = text, !.borderRight = "none"])
       ELSE [AddTimer(
               SetEl(st, e, [el EXCEPT !.animated = TRUE, !.text = "",
                                       !.width = "auto", !.animation = "none",
                                       !.session = st.sessions + 1,
                                       !.sessionText = originalText,
                                       !.sessionStart = t]),
               Timer(t + typewriterStartDelay + speed, e, "typeChar",
                     st.sessions + 1, originalText, 0, speed))
             EXCEPT !.sessions = @ + 1]

\* triggerTypewriter(element, text, speed)
triggerTypewriter(st, e, text, speed, rm, t) ==
  LET el == st.elems[e]
      originalText == IF text # "" THEN text ELSE el.text
  IN IF rm
       THEN SetEl(st, e, [el EXCEPT !.text = text, !.borderRight = "none"])
       ELSE [AddTimer(
               SetEl(st, e, [el EXCEPT !.animated = TRUE, !.text = "",
                                       !.width = "auto", !.animation = "none",
                                       !.session = st.sessions + 1,
                                       !.sessionText = originalText,
                                       !.sessionStart = t]),
               Timer(t + typewriterStartDelay, e, "typeChar",
                     st.sessions + 1, originalText, 0, speed))
             EXCEPT !.sessions = @ + 1]

\* triggerScrollTypewriter(element) typing its first character at once.
triggerScrollTypewriterNoDelay(st, e, rm, t) ==
  LET el == st.elems[e]
      text == IF el.dataText # "" THEN el.dataText ELSE el.text
  IN IF rm
       THEN SetEl(st, e, [el EXCEPT !.borderRight = "none"])
       ELSE [AddTimer(
               SetEl(st, e, [el EXCEPT !.animated = TRUE, !.text = "",
                                       !.classes = @ \cup {"typewriter-active"},
                                       !.session = st.sessions + 1,
                                       !.sessionText = text,
                                       !.sessionStart = t]),
               Timer(t, e, "scrollChar", st.sessions + 1, text, 0,
                     scrollSpeed))
             EXCEPT !.sessions = @ + 1]

\* triggerScrollTypewriter(element)
triggerScrollTypewriter(st, e, rm, t) ==
  LET el == st.elems[e]
      text == IF el.dataText # "" THEN el.dataText ELSE el.text
  IN IF rm
       THEN SetEl(st, e, [el EXCEPT !.borderRight = "none"])
       ELSE [AddTimer(
               SetEl(st, e, [el EXCEPT !.animated = TRUE, !.text = "",
                                       !.classes = @ \cup {"typewriter-active"},
                                       !.session = st.sessions + 1,
                                       !.sessionText = text,
                                       !.sessionStart = t]),
               Timer(t + scrollStartDelay, e, "scrollChar", st.sessions + 1,
                     text, 0, scrollSpeed))
             EXCEPT !.sessions = @ + 1]

\* Callbacks that all write into the element "e1".
RunTimerSharedElement(st, tm, t) ==
  LET el == st.elems["e1"]
  IN IF tm.idx < Len(tm.text)
       THEN AddTimer(
              SetEl(st, "e1", [el EXCEPT !.text =
                                 @ \o SubSeq(tm.text, tm.idx + 1, tm.idx + 1)]),
              Timer(t + tm.speed, tm.el, tm.kind, tm.sid, tm.text,
                    tm.idx + 1, tm.speed))
       ELSE st

\* The callback of a timer, run at time t: typeChar of triggerTypewriter,
\* typeChar of triggerScrollTypewriter, or one of the two callbacks of
\* triggerAboutAnimations.
RunTimer(st, tm, t) ==
  LET e == tm.el
      el == st.elems[e]
  IN CASE tm.kind = "typeChar" ->
            IF tm.idx < Len(tm.text)
              THEN AddTimer(
                     SetEl(st, e, [el EXCEPT !.text =
                                     @ \o SubSeq(tm.text, tm.idx + 1, tm.idx + 1)]),
                     Timer(t + tm.speed, e, "typeChar", tm.sid, tm.text,
                           tm.idx + 1, tm.speed))
              ELSE SetEl(st, e, [el EXCEPT !.animation =
                                   "blink-caret 0.75s step-end infinite"])
       [] tm.kind = "scrollChar" ->
            IF tm.idx < Len(tm.text)
              THEN AddTimer(
                     SetEl(st, e, [el EXCEPT !.text =
                                     @ \o SubSeq(tm.text, tm.idx + 1, tm.idx + 1)]),
                     Timer(t + tm.speed, e, "scrollChar", tm.sid, tm.text,
                           tm.idx + 1, tm.speed))
              ELSE SetEl(st, e, [el EXCEPT !.borderRight = "none",
                                           !.classes = @ \ {"typewriter-active"}])
       [] tm.kind = "aboutDescription" ->
            SetEl(st, e, [el EXCEPT !.description = "visible"])
       [] OTHER ->
            SetEl(st, e, [el EXCEPT !.aspirations = "visible"])

-----------------------------------------------------------------------------
(***************************************************************************)
(* The IntersectionObserver (platform side) and the two callbacks the      *)
(* repository installs on it                                               *)
(***************************************************************************)

\* Cap on the entries queued before the callback is delivered.
MaxQueue == 2

\* OBSERVER_CONFIG.threshold is 0.1: inView[e] says that at least 10% of e
\* is inside the viewport.

\* ANIMATION_CLASSES, in the order Object.entries yields it.
ANIMATION_CLASSES ==
  << <<"fade-in", "visible">>, <<"slide-in-left", "visible">>,
     <<"fade-in-stagger", "visible">>, <<"pulse-glow", "visible">>,
     <<"skill-reveal", "visible">>,
     <<"typewriter-scroll", "typewriter-active">> >>

\* What a registration records of the last report for its target.
Seen(e) == IF inView[e] THEN "intersecting" ELSE "outside"

Registered(tg, e) == \E i \in 1..Len(tg) : tg[i].el = e

\* An observe() that would register a target again on every call.
PlatformObserveTwice(tg, e) ==
  Append(tg, [el |-> e, prev |-> "none"])

\* IntersectionObserver.observe(target): registers the target once; a target
\* that is registered already is left as it is.
PlatformObserve(tg, e) ==
  IF Registered(tg, e) THEN tg ELSE Append(tg, [el |-> e, prev |-> "none"])

\* IntersectionObserver.unobserve(target)
PlatformUnobserve(tg, e) == SelectSeq(tg, LAMBDA r : r.el # e)

\* The entries one rendering update queues: one for every registration whose
\* intersection state differs from the state reported last (a new
\* registration always reports once).
RECURSIVE NewEntries(_)
NewEntries(tg) ==
  IF tg = <<>> THEN <<>>
  ELSE LET r == Head(tg)
       IN (IF r.prev # Seen(r.el)
             THEN << [target |-> r.el, isIntersecting |-> inView[r.el]] >>
             ELSE <<>>)
          \o NewEntries(Tail(tg))

\* GlobalScrollObserver.handleIntersection(element): the first animation
\* class the element carries decides the class that is added.
RECURSIVE FirstMatch(_, _)
FirstMatch(classes, i) ==
  IF i > Len(ANIMATION_CLASSES) THEN 0
  ELSE IF ANIMATION_CLASSES[i][1] \in classes THEN i
  ELSE FirstMatch(classes, i + 1)

handleIntersection(ob, e, rm) ==
  LET el == ob.elems[e]
      i == FirstMatch(el.classes, 1)
  IN IF i = 0 THEN ob
     ELSE LET styled == IF rm
                          THEN [el EXCEPT !.opacity = "1", !.transform = "none"]
                          ELSE el
          IN SetEl(ob, e, [styled EXCEPT !.classes =
                                    @ \cup {ANIMATION_CLASSES[i][2]}])

\* A callback that would handle an intersecting entry and keep observing
\* its target.
RECURSIVE GsKeepObserving(_, _, _, _)
GsKeepObserving(ob, entries, rm, live) ==
  IF entries = <<>> THEN ob
  ELSE LET entry == Head(entries)
       IN IF ~entry.isIntersecting
            THEN GsKeepObserving(ob, Tail(entries), rm, live)
            ELSE LET done == [handleIntersection(ob, entry.target, rm)
                                EXCEPT !.fired = Append(@, entry.target)]
                 IN IF ~live THEN done
                    ELSE GsKeepObserving(done, Tail(entries), rm, live)

\* The callback GlobalScrollObserver.init installs, run on the entries it
\* was handed. ob is the page state plus the observer's registrations and
\* the targets handled so far: [elems, timers, sessions, targets, fired].
\* live says whether this.observer is still set (when it is null,
\* this.observer.unobserve throws and the rest of the entries is dropped).
RECURSIVE GsProcessEntries(_, _, _, _)
GsProcessEntries(ob, entries, rm, live) ==
  IF entries = <<>> THEN ob
  ELSE LET entry == Head(entries)
       IN IF ~entry.isIntersecting
            THEN GsProcessEntries(ob, Tail(entries), rm, live)
            ELSE LET done == [handleIntersection(ob, entry.target, rm)
                                EXCEPT !.fired = Append(@, entry.target)]
                 IN IF ~live THEN done
                    ELSE GsProcessEntries(
                           [done EXCEPT !.targets =
                                   PlatformUnobserve(@, entry.target)],
                           Tail(entries), rm, live)

\* The body of AnimationController's observer callback for one intersecting
\* entry, up to (not including) the unobserve.
AcHandle(ob, e, rm, t) ==
  LET has(s, c) == c \in s.elems[e].classes
      s1 == IF has(ob, "fade-in")
              THEN LET f == triggerFadeIn(ob, e, rm)
                   IN IF has(f, "about-content")
                        THEN triggerAboutAnimations(f, e, t) ELSE f
              ELSE ob
      s2 == IF has(s1, "slide-in-left") THEN triggerSlideInLeft(s1, e, rm) ELSE s1
      s3 == IF has(s2, "fade-in-stagger") THEN triggerFadeInStagger(s2, e, rm) ELSE s2
      s4 == IF has(s3, "pulse-glow") THEN triggerPulseGlow(s3, e, rm) ELSE s3
      s5 == IF /\ has(s4, "typewriter")
               /\ ~s4.elems[e].hero
               /\ ~s4.elems[e].animated
              THEN triggerTypewriter(s4, e, s4.elems[e].text,
                                     observerTypewriterSpeed, rm, t)
              ELSE s4
      s6 == IF has(s5, "typewriter-scroll") /\ ~s5.elems[e].animated
              THEN triggerScrollTypewriter(s5, e, rm, t)
              ELSE s5
  IN IF has(s6, "skill-reveal") THEN triggerSkillReveal(s6, e, rm) ELSE s6

\* The callback setupIntersectionObserver installs, run on the entries it
\* was handed at time t.
RECURSIVE AcProcessEntries(_, _, _, _, _)
AcProcessEntries(ob, entries, rm, t, live) ==
  IF entries = <<>> THEN ob
  ELSE LET entry == Head(entries)
       IN IF ~entry.isIntersecting
            THEN AcProcessEntries(ob, Tail(entries), rm, t, live)
            ELSE LET done == [AcHandle(ob, entry.target, rm, t)
                                EXCEPT !.fired = Append(@, entry.target)]
                 IN IF ~live THEN done
                    ELSE AcProcessEntries(
                           [done EXCEPT !.targets =
                                   PlatformUnobserve(@, entry.target)],
                           Tail(entries), rm, t, live)

\* The page state and the registrations as one record, and back.
Page ==
  [elems |-> elems, timers |-> timers, sessions |-> sessions,
   targets |-> targets, fired |-> <<>>]

SetPage(ob) ==
  /\ elems' = ob.elems
  /\ timers' = ob.timers
  /\ sessions' = ob.sessions
  /\ targets' = ob.targets
  /\ phase' = [e \in Elements |->
                 IF \E i \in 1..Len(ob.fired) : ob.fired[i] = e
                   THEN "fired" ELSE phase[e]]

\* The page a callback run leaves, with the targets it handled on record.
SetCallbackPage(ob) ==
  /\ SetPage(ob)
  /\ revOp' = [op |-> "callback", el |-> Null, fired |-> ob.fired]

\* observe() for every element of a list, in order.
RECURSIVE ObserveList(_, _)
ObserveList(tg, list) ==
  IF list = <<>> THEN tg
  ELSE ObserveList(PlatformObserve(tg, Head(list)), Tail(list))

\* document.querySelectorAll('.' + class): the elements in document order.
ElementOrder == <<"e1", "e2">>

QueryAll(class) ==
  SelectSeq(ElementOrder, LAMBDA e : class \in elems[e].classes)

\* The user scrolls (or the layout changes): an element enters or leaves
\* the viewport.
Scroll(e) ==
  /\ inView' = [inView EXCEPT ![e] = ~@]
  /\ phase' = [phase EXCEPT ![e] =
                 IF @ = "fired" /\ inView[e] THEN "left"
                 ELSE IF @ = "left" /\ ~inView[e] THEN "reentered"
                 ELSE @]
  /\ revOp' = [op |-> "other", el |-> Null, fired |-> <<>>]
  /\ UNCHANGED <<elems, timers, sessions, obsOwner, gsReducedMotion,
                 gsObserver, targets, queue>>

\* A rendering update: the platform compares every registration with the
\* viewport and queues the entries.
Frame ==
  /\ NewEntries(targets) # <<>>
  /\ Len(queue) + Len(NewEntries(targets)) <= MaxQueue
  /\ queue' = queue \o NewEntries(targets)
  /\ targets' = [i \in 1..Len(targets) |->
                   [targets[i] EXCEPT !.prev = Seen(targets[i].el)]]
  /\ revOp' = [op |-> "other", el |-> Null, fired |-> <<>>]
  /\ UNCHANGED <<elems, timers, sessions, obsOwner, gsReducedMotion,
                 gsObserver, inView, phase>>

\* The callback GlobalScrollObserver.init installs, run on the queued
\* entries.
GsCallback ==
  /\ obsOwner = "GlobalScrollObserver"
  /\ queue # <<>>
  /\ SetCallbackPage(GsProcessEntries(Page, queue, gsReducedMotion,
                                      gsObserver = "live"))
  /\ queue' = <<>>
  /\ UNCHANGED <<obsOwner, gsReducedMotion, gsObserver, inView>>

\* GlobalScrollObserver.observe(element)
GsObserve(e) ==
  /\ obsOwner = "GlobalScrollObserver"
  /\ IF gsObserver = "live" /\ e # Null
       THEN /\ targets' = PlatformObserve(targets, e)
            /\ phase' = [phase EXCEPT ![e] =
                           IF Registered(targets, e) THEN @ ELSE "pending"]
       ELSE UNCHANGED <<targets, phase>>
  /\ revOp' = [op |-> "other", el |-> Null, fired |-> <<>>]
  /\ UNCHANGED <<elems, timers, sessions, obsOwner, gsReducedMotion,
                 gsObserver, inView, queue>>

\* GlobalScrollObserver.unobserve(element)
GsUnobserve(e) ==
  /\ obsOwner = "GlobalScrollObserver"
  /\ IF gsObserver = "live" /\ e # Null
       THEN targets' = PlatformUnobserve(targets, e)
       ELSE UNCHANGED targets
  /\ revOp' = [op |-> "other", el |-> Null, fired |-> <<>>]
  /\ UNCHANGED <<elems, timers, sessions, obsOwner, gsReducedMotion,
                 gsObserver, inView, queue, phase>>

\* GlobalScrollObserver.destroy(): disconnects and drops the observer.
GsDestroy ==
  /\ obsOwner = "GlobalScrollObserver"
  /\ IF gsObserver = "live"
       THEN targets' = <<>> /\ gsObserver' = "null"
       ELSE UNCHANGED <<targets, gsObserver>>
  /\ revOp' = [op |-> "other", el |-> Null, fired |-> <<>>]
  /\ UNCHANGED <<elems, timers, sessions, obsOwner, gsReducedMotion, inView,
                 queue, phase>>

\* The 'change' listener GlobalScrollObserver.init registers.
GsMotionChange ==
  /\ obsOwner = "GlobalScrollObserver"
  /\ gsReducedMotion' = ~gsReducedMotion
  /\ revOp' = [op |-> "other", el |-> Null, fired |-> <<>>]
  /\ UNCHANGED <<elems, timers, sessions, obsOwner, gsObserver, targets,
                 inView, queue, phase>>

-----------------------------------------------------------------------------
(***************************************************************************)
(* AnimationController: the cycling (hero) typewriter                      *)
(***************************************************************************)

\* Cap on the cycles a session is followed for.
MaxCycles == 5

\* Cap on charIndex (it grows without limit while an empty string is typed):
\* values above it are not told apart. It exceeds the length of every string
\* of TextLists, and animate() compares charIndex with that length only.
MaxCharIndex == 20

pauseBeforeDelete == 2000

pauseBeforeType == 500

deleteSpeed == 50

cycleStartDelay == 500

NoTimer == [due |-> -1, cb |-> "none"]

\* The list setupHeroTypewriter passes.
HeroTexts == <<"John Raven Unera", "Rae", "B4Y0N3TTA", "Raven">>

\* Lists a cycling session is started on.
TextLists == {HeroTexts, <<"Rae", "B4Y0N3TTA">>, <<"A", "Rae">>, <<"Rae", "">>}

\* Type speeds (ms per character) a cycling session is started with.
Speeds == {100, 40}

Min(a, b) == IF a <= b THEN a ELSE b

Max(a, b) == IF a >= b THEN a ELSE b

\* String.prototype.substring(a, b): both indices are clamped to
\* [0, length] and swapped when a > b.
Substring(str, a, b) ==
  LET ca == Max(0, Min(a, Len(str)))
      cb == Max(0, Min(b, Len(str)))
  IN SubSeq(str, Min(ca, cb) + 1, Max(ca, cb))

IsPrefix(p, str) ==
  Len(p) <= Len(str) /\ SubSeq(str, 1, Len(p)) = p

\* The text the hero element's markup holds before any script runs: the
\* primary name, which is also the first string of the list.
HeroMarkup(texts) == texts[1]

\* new AnimationController(), and the arguments the cycling session will get.
CycleConstructed(motion, hero, texts, speed) ==
  /\ reducedMotion = motion
  /\ acObserver = "null"
  /\ acPhase = "new"
  /\ clock = 0
  /\ hasHero = hero
  /\ cyTexts = texts
  /\ cySpeed = speed
  /\ textIndex = 0
  /\ charIndex = 0
  /\ isDeleting = FALSE
  /\ heroText = HeroMarkup(texts)
  /\ heroCursor = TRUE
  /\ cyTimer = NoTimer
  /\ cycles = 0
  /\ cyLast = "none"

\* triggerCyclingTypewriter(element, texts, speed)
TriggerCyclingTypewriter ==
  IF reducedMotion
    THEN /\ heroText' = cyTexts[1]
         /\ heroCursor' = FALSE
         /\ UNCHANGED <<textIndex, charIndex, isDeleting, cyTimer>>
    ELSE /\ textIndex' = 0
         /\ charIndex' = 0
         /\ isDeleting' = FALSE
         /\ cyTimer' = [due |-> clock + cycleStartDelay, cb |-> "animate"]
         /\ UNCHANGED <<heroText, heroCursor>>

\* setupGlitchEffects(): every '.glitch' element gets its data-text.
setupGlitchEffects(els) ==
  [e \in Elements |->
     IF "glitch" \in els[e].classes /\ els[e].dataText = ""
       THEN [els[e] EXCEPT !.dataText = els[e].text]
       ELSE els[e]]

\* The observe() calls of setupIntersectionObserver, in order: one list per
\* query.
SetupLists ==
  QueryAll("fade-in")
  \o SelectSeq(QueryAll("typewriter"), LAMBDA e : ~elems[e].hero)
  \o QueryAll("typewriter-scroll")
  \o QueryAll("slide-in-left")
  \o QueryAll("fade-in-stagger")
  \o QueryAll("pulse-glow")
  \o QueryAll("skill-reveal")

\* AnimationController.init(): setupGlitchEffects, then setupHeroTypewriter
\* (which starts the cycling session unless reduced motion is set), then
\* setupIntersectionObserver (which creates the observer and observes the
\* elements of every animation class).
InitController ==
  /\ obsOwner = "AnimationController"
  /\ acPhase = "new"
  /\ acPhase' = "ready"
  /\ elems' = setupGlitchEffects(elems)
  /\ IF hasHero /\ ~reducedMotion
       THEN TriggerCyclingTypewriter
       ELSE UNCHANGED <<textIndex, charIndex, isDeleting, heroText,
                        heroCursor, cyTimer>>
  /\ acObserver' = "live"
  /\ targets' = ObserveList(targets, SetupLists)
  /\ revOp' = [op |-> "init", el |-> Null, fired |-> <<>>]
  /\ UNCHANGED <<reducedMotion, clock, hasHero, cyTexts, cySpeed, cycles,
                 cyLast, timers, sessions, obsOwner, gsReducedMotion,
                 gsObserver, inView, queue, phase>>

\* The 'change' listener of the reduced-motion media query that init()
\* registers (it is never removed).
MotionChange ==
  /\ acPhase # "new"
  /\ reducedMotion' = ~reducedMotion
  /\ revOp' = [op |-> "other", el |-> Null, fired |-> <<>>]
  /\ UNCHANGED <<acObserver, acPhase, clock, cycleVars, elems, timers,
                 sessions, obsVars>>

\* AnimationController.destroy(): disconnects and drops the observer.
Destroy ==
  /\ acPhase # "new"
  /\ acPhase' = "destroyed"
  /\ IF acObserver = "live"
       THEN targets' = <<>> /\ acObserver' = "null"
       ELSE UNCHANGED <<targets, acObserver>>
  /\ revOp' = [op |-> "other", el |-> Null, fired |-> <<>>]
  /\ UNCHANGED <<reducedMotion, clock, cycleVars, elems, timers, sessions,
                 obsOwner, gsReducedMotion, gsObserver, inView, queue,
                 phase>>

\* The callback setupIntersectionObserver installs, run on the queued
\* entries.
AcCallback ==
  /\ obsOwner = "AnimationController"
  /\ queue # <<>>
  /\ SetCallbackPage(AcProcessEntries(Page, queue, reducedMotion, clock,
                                      acObserver = "live"))
  /\ queue' = <<>>
  /\ UNCHANGED <<acVars, cycleVars, obsOwner, gsReducedMotion, gsObserver,
                 inView>>

\* animate(element, type) with a default branch that fades the element in.
AnimateManualFadesUnknown(e, type) ==
  /\ acPhase # "new"
  /\ sessions < MaxSessions
  /\ LET st == [elems |-> elems, timers |-> timers, sessions |-> sessions]
         res == CASE type = "glitch" -> triggerGlitch(st, e, reducedMotion)
                  [] type = "typewriter" ->
                       triggerTypewriter(st, e, elems[e].text,
                                         defaultTypewriterSpeed,
                                         reducedMotion, clock)
                  [] OTHER -> triggerFadeIn(st, e, reducedMotion)
     IN /\ elems' = res.elems
        /\ timers' = res.timers
        /\ sessions' = res.sessions
  /\ revOp' = [op |-> "animate:" \o type, el |-> e, fired |-> <<>>]
  /\ UNCHANGED <<acVars, cycleVars, obsVars>>

\* animate(element, type): the manual entry point.
AnimateManual(e, type) ==
  /\ acPhase # "new"
  /\ sessions < MaxSessions
  /\ LET st == [elems |-> elems, timers |-> timers, sessions |-> sessions]
         res == CASE type = "glitch" -> triggerGlitch(st, e, reducedMotion)
                  [] type = "typewriter" ->
                       triggerTypewriter(st, e, elems[e].text,
                                         defaultTypewriterSpeed,
                                         reducedMotion, clock)
                  [] type = "fade" -> triggerFadeIn(st, e, reducedMotion)
                  [] OTHER -> st
     IN /\ elems' = res.elems
        /\ timers' = res.timers
        /\ sessions' = res.sessions
  /\ revOp' = [op |-> "animate:" \o type, el |-> e, fired |-> <<>>]
  /\ UNCHANGED <<acVars, cycleVars, obsVars>>

\* A direct call of triggerTypewriter(element, text, speed).
DirectTypewriter(e, text, speed) ==
  /\ acPhase # "new"
  /\ sessions < MaxSessions
  /\ LET st == [elems |-> elems, timers |-> timers, sessions |-> sessions]
         res == triggerTypewriter(st, e, text, speed, reducedMotion, clock)
     IN /\ elems' = res.elems
        /\ timers' = res.timers
        /\ sessions' = res.sessions
  /\ revOp' = [op |-> "triggerTypewriter", el |-> e, fired |-> <<>>]
  /\ UNCHANGED <<acVars, cycleVars, obsVars>>

\* A direct call of triggerScrollTypewriter(element).
DirectScrollTypewriter(e) ==
  /\ acPhase # "new"
  /\ sessions < MaxSessions
  /\ LET st == [elems |-> elems, timers |-> timers, sessions |-> sessions]
         res == triggerScrollTypewriter(st, e, reducedMotion, clock)
     IN /\ elems' = res.elems
        /\ timers' = res.timers
        /\ sessions' = res.sessions
  /\ revOp' = [op |-> "triggerScrollTypewriter", el |-> e, fired |-> <<>>]
  /\ UNCHANGED <<acVars, cycleVars, obsVars>>

\* The pending timer that fires next: the earliest due, and among equals
\* the one set first.
NextTimer ==
  CHOOSE i \in 1..Len(timers) :
    \A j \in 1..Len(timers) :
      \/ timers[j].due > timers[i].due
      \/ (timers[j].due = timers[i].due /\ j >= i)

\* A timer of a reveal trigger comes due and its callback runs.
TimerFire ==
  /\ timers # <<>>
  /\ cyTimer # NoTimer => timers[NextTimer].due <= cyTimer.due
  /\ LET i == NextTimer
         tm == timers[i]
         rest == [j \in 1..(Len(timers) - 1) |->
                    IF j < i THEN timers[j] ELSE timers[j + 1]]
         st == [elems |-> elems, timers |-> rest, sessions |-> sessions]
         res == RunTimer(st, tm, tm.due)
     IN /\ clock' = tm.due
        /\ elems' = res.elems
        /\ timers' = res.timers
        /\ revOp' = [op |-> "timer:" \o tm.kind, el |-> tm.el, fired |-> <<>>]
  /\ UNCHANGED <<reducedMotion, acObserver, acPhase, cycleVars, sessions,
                 obsVars>>

\* Latest time at which the page clock is advanced without a timer, in ms.
MaxClock == 700

\* Clock advances between events of the page, in ms.
ElapseSteps == {50, 100}

\* Time passes on the page with no timer coming due.
PageElapse(dt) ==
  /\ clock + dt <= MaxClock
  /\ \A i \in 1..Len(timers) : clock + dt <= timers[i].due
  /\ cyTimer # NoTimer => clock + dt <= cyTimer.due
  /\ clock' = clock + dt
  /\ revOp' = [op |-> "other", el |-> Null, fired |-> <<>>]
  /\ UNCHANGED <<reducedMotion, acObserver, acPhase, cycleVars, elems,
                 timers, sessions, obsVars>>

\* The one triggerTypewriter(element, text, speed) call of a page whose
\* element is animated once.
TypeOnce(e, text, speed) ==
  /\ sessions = 0
  /\ DirectTypewriter(e, text, speed)

\* One run of the closure animate() of triggerCyclingTypewriter, entered
\* with the given value of isDeleting.
CycleAnimateEarlyAdvance(deleting) ==
  LET currentText == cyTexts[textIndex + 1]
  IN IF ~deleting
       THEN /\ heroText' = Substring(currentText, 0, charIndex + 1)
            /\ charIndex' = charIndex + 1
            /\ IF charIndex + 1 = Len(currentText)
                 THEN /\ cyTimer' = [due |-> clock' + pauseBeforeDelete,
                                     cb |-> "startDelete"]
                      /\ textIndex' = (textIndex + 1) % Len(cyTexts)
                 ELSE /\ cyTimer' = [due |-> clock' + cySpeed,
                                     cb |-> "animate"]
                      /\ UNCHANGED textIndex
            /\ isDeleting' = deleting
       ELSE /\ heroText' = Substring(currentText, 0, charIndex - 1)
            /\ charIndex' = charIndex - 1
            /\ IF charIndex - 1 = 0
                 THEN /\ isDeleting' = FALSE
                      /\ cyTimer' = [due |-> clock' + pauseBeforeType,
                                     cb |-> "animate"]
                 ELSE /\ isDeleting' = deleting
                      /\ cyTimer' = [due |-> clock' + deleteSpeed,
                                     cb |-> "animate"]
            /\ UNCHANGED textIndex

CycleAnimateSlowDelete(deleting) ==
  LET currentText == cyTexts[textIndex + 1]
  IN IF ~deleting
       THEN /\ heroText' = Substring(currentText, 0, charIndex + 1)
            /\ charIndex' = charIndex + 1
            /\ IF charIndex + 1 = Len(currentText)
                 THEN cyTimer' = [due |-> clock' + pauseBeforeDelete,
                                  cb |-> "startDelete"]
                 ELSE cyTimer' = [due |-> clock' + cySpeed,
                                  cb |-> "animate"]
            /\ isDeleting' = deleting
            /\ UNCHANGED textIndex
       ELSE /\ heroText' = Substring(currentText, 0, charIndex - 1)
            /\ charIndex' = charIndex - 1
            /\ IF charIndex - 1 = 0
                 THEN /\ isDeleting' = FALSE
                      /\ textIndex' = (textIndex + 1) % Len(cyTexts)
                      /\ cyTimer' = [due |-> clock' + pauseBeforeType,
                                     cb |-> "animate"]
                 ELSE /\ isDeleting' = deleting
                      /\ UNCHANGED textIndex
                      /\ cyTimer' = [due |-> clock' + cySpeed,
                                     cb |-> "animate"]

CycleAnimate(deleting) ==
  LET currentText == cyTexts[textIndex + 1]
  IN IF ~deleting
       THEN /\ heroText' = Substring(currentText, 0, charIndex + 1)
            /\ charIndex' = Min(charIndex + 1, MaxCharIndex)
            /\ IF charIndex + 1 = Len(currentText)
                 THEN cyTimer' = [due |-> clock' + pauseBeforeDelete,
                                  cb |-> "startDelete"]
                 ELSE cyTimer' = [due |-> clock' + cySpeed,
                                  cb |-> "animate"]
            /\ isDeleting' = deleting
            /\ UNCHANGED textIndex
       ELSE /\ heroText' = Substring(currentText, 0, charIndex - 1)
            /\ charIndex' = charIndex - 1
            /\ IF charIndex - 1 = 0
                 THEN /\ isDeleting' = FALSE
                      /\ textIndex' = (textIndex + 1) % Len(cyTexts)
                      /\ cyTimer' = [due |-> clock' + pauseBeforeType,
                                     cb |-> "animate"]
                 ELSE /\ isDeleting' = deleting
                      /\ UNCHANGED textIndex
                      /\ cyTimer' = [due |-> clock' + deleteSpeed,
                                     cb |-> "animate"]

\* The session's pending timer comes due: the clock reaches its due time
\* and its callback runs (the pause-before-delete callback sets isDeleting
\* and then calls animate()).
CycleTimerFire ==
  /\ cyTimer # NoTimer
  /\ \A i \in 1..Len(timers) : cyTimer.due <= timers[i].due
  /\ cycles < MaxCycles
  /\ charIndex < MaxCharIndex
  /\ clock' = cyTimer.due
  /\ CycleAnimate(IF cyTimer.cb = "startDelete" THEN TRUE ELSE isDeleting)
  /\ cycles' = IF heroText # "" /\ heroText' = "" THEN cycles + 1 ELSE cycles
  /\ cyLast' = IF cyLast = "none" \/ Len(heroText') > Len(heroText)
                 THEN "typed"
               ELSE IF Len(heroText') < Len(heroText) THEN "deleted"
               ELSE cyLast
  /\ revOp' = [op |-> "timer:cycle", el |-> Null, fired |-> <<>>]
  /\ UNCHANGED <<reducedMotion, acObserver, acPhase, hasHero, cyTexts,
                 cySpeed, heroCursor, elems, timers, sessions, obsVars>>

\* The session's pending timer comes due, for a session that is followed
\* for ever: the time is counted from the step, since animate() uses delays
\* only, and the cycles are not counted.
CycleRun ==
  /\ cyTimer # NoTimer
  /\ timers = <<>>
  /\ clock' = 0
  /\ CycleAnimate(IF cyTimer.cb = "startDelete" THEN TRUE ELSE isDeleting)
  /\ cyLast' = IF cyLast = "none" \/ Len(heroText') > Len(heroText)
                 THEN "typed"
               ELSE IF Len(heroText') < Len(heroText) THEN "deleted"
               ELSE cyLast
  /\ revOp' = [op |-> "timer:cycle", el |-> Null, fired |-> <<>>]
  /\ UNCHANGED <<reducedMotion, acObserver, acPhase, hasHero, cyTexts,
                 cySpeed, heroCursor, cycles, elems, timers, sessions,
                 obsVars>>

-----------------------------------------------------------------------------
(***************************************************************************)
(* ProjectCardController: the tilt of the project cards                    *)
(***************************************************************************)

\* The '[data-tilt]' elements of the page.
Cards == {"c1", "c2"}

maxTilt == 15

\* Durations of the two transitions, in ms, and the scale of a tilted card,
\* in hundredths.
enterDuration == 100

leaveDuration == 300

tiltScale == 102

Abs(n) == IF n < 0 THEN -n ELSE n

RECURSIVE GCD(_, _)
GCD(a, b) == IF b = 0 THEN a ELSE GCD(b, a % b)

\* The number num / den (den > 0), in lowest terms.
Frac(num, den) ==
  LET g == GCD(Abs(num), den) IN [num |-> num \div g, den |-> den \div g]

Zero == Frac(0, 1)

\* style.transform: '' or
\* 'perspective(1000px) rotateX(..deg) rotateY(..deg) scale3d(s, s, s)'.
Transform(isSet, rotateX, rotateY, scale) ==
  [isSet |-> isSet, rotateX |-> rotateX, rotateY |-> rotateY,
   scale |-> scale]

NoTransform == Transform(FALSE, Zero, Zero, 100)

NeutralTransform == Transform(TRUE, Zero, Zero, 100)

\* style.transition: '' or 'transform <duration> ease-out'.
Transition(isSet, duration) == [isSet |-> isSet, duration |-> duration]

NoTransition == Transition(FALSE, 0)

\* Bounding boxes getBoundingClientRect() returns for a card.
TiltRects ==
  { [left |-> 0, top |-> 0, width |-> 200, height |-> 200],
    [left |-> 50, top |-> 20, width |-> 300, height |-> 100] }

NoRect == [left |-> 0, top |-> 0, width |-> 0, height |-> 0]

\* Pointer positions inside a box, its edges included.
PointerXs(rect) ==
  { rect.left, rect.left + rect.width \div 4, rect.left + rect.width \div 2,
    rect.left + rect.width }

PointerYs(rect) ==
  { rect.top, rect.top + rect.height \div 2, rect.top + rect.height }

TiltOp(op, card, rect, clientX, clientY) ==
  [op |-> op, card |-> card, rect |-> rect, clientX |-> clientX,
   clientY |-> clientY, before |-> cards]

\* The controller after its constructor, on a page whose cards carry no
\* inline style.
TiltInitial(motion) ==
  /\ tiltReduced = motion
  /\ tiltPhase = "new"
  /\ tiltWired = FALSE
  /\ tiltCards = {}
  /\ cards = [c \in Cards |->
               [transform |-> NoTransform, transition |-> NoTransition]]
  /\ hovered = Null
  /\ tiltOp = [op |-> "new", card |-> Null, rect |-> NoRect, clientX |-> 0,
               clientY |-> 0,
               before |-> [c \in Cards |->
                            [transform |-> NoTransform,
                             transition |-> NoTransition]]]

\* applyTiltEffect(card, x, y): the transform for a normalized offset.
applyTiltSwapped(x, y) ==
  Transform(TRUE, Frac(-(x.num * maxTilt), x.den),
            Frac(y.num * maxTilt, y.den), tiltScale)

applyTiltEffect(x, y) ==
  Transform(TRUE, Frac(-(y.num * maxTilt), y.den),
            Frac(x.num * maxTilt, x.den), tiltScale)

\* handleMouseMove(event, card): the card's style afterwards. The center is
\* left + width / 2, so the offset from it over width / 2 is
\* (2 * clientX - 2 * left - width) / width.
handleMouseMove(c, rect, clientX, clientY) ==
  IF tiltReduced
    THEN cards[c]
    ELSE LET mouseX == Frac(2 * clientX - (2 * rect.left + rect.width),
                            rect.width)
             mouseY == Frac(2 * clientY - (2 * rect.top + rect.height),
                            rect.height)
         IN [cards[c] EXCEPT !.transform = applyTiltEffect(mouseX, mouseY)]

\* handleMouseEnter(card)
handleMouseEnter(c) ==
  IF tiltReduced
    THEN cards[c]
    ELSE [cards[c] EXCEPT !.transition = Transition(TRUE, enterDuration)]

\* handleMouseLeave(card)
handleMouseLeaveKeepsTilt(c) ==
  IF tiltReduced
    THEN cards[c]
    ELSE [cards[c] EXCEPT !.transition = Transition(TRUE, leaveDuration)]

handleMouseLeave(c) ==
  IF tiltReduced
    THEN cards[c]
    ELSE [transform |-> NeutralTransform,
          transition |-> Transition(TRUE, leaveDuration)]

\* resetAllCards()
resetAllCardsKeepsStyle == cards

resetAllCards ==
  [c \in Cards |->
     IF c \in tiltCards
       THEN [transform |-> NoTransform, transition |-> NoTransition]
       ELSE cards[c]]

\* init(): collects the cards and, unless reduced motion was preferred when
\* the controller was constructed, registers the listeners.
TiltInit ==
  /\ tiltPhase = "new"
  /\ tiltPhase' = "ready"
  /\ tiltCards' = Cards
  /\ tiltWired' = ~tiltReduced
  /\ tiltOp' = TiltOp("init", Null, NoRect, 0, 0)
  /\ UNCHANGED <<tiltReduced, cards, hovered, prefersReduced>>

\* The pointer comes over a card.
PointerEnter(c) ==
  /\ tiltPhase # "new"
  /\ hovered = Null
  /\ hovered' = c
  /\ cards' = IF tiltWired THEN [cards EXCEPT ![c] = handleMouseEnter(c)]
                           ELSE cards
  /\ tiltOp' = TiltOp("enter", c, NoRect, 0, 0)
  /\ UNCHANGED <<tiltReduced, tiltPhase, tiltWired, tiltCards,
                 prefersReduced>>

\* The pointer moves over the card it is on.
PointerMove(c, rect, clientX, clientY) ==
  /\ tiltPhase # "new"
  /\ hovered = c
  /\ cards' = IF tiltWired
                THEN [cards EXCEPT
                        ![c] = handleMouseMove(c, rect, clientX, clientY)]
                ELSE cards
  /\ tiltOp' = TiltOp("move", c, rect, clientX, clientY)
  /\ UNCHANGED <<tiltReduced, tiltPhase, tiltWired, tiltCards, hovered,
                 prefersReduced>>

\* The pointer leaves the card it is on.
PointerLeave(c) ==
  /\ tiltPhase # "new"
  /\ hovered = c
  /\ hovered' = Null
  /\ cards' = IF tiltWired THEN [cards EXCEPT ![c] = handleMouseLeave(c)]
                           ELSE cards
  /\ tiltOp' = TiltOp("leave", c, NoRect, 0, 0)
  /\ UNCHANGED <<tiltReduced, tiltPhase, tiltWired, tiltCards,
                 prefersReduced>>

\* The user's reduced-motion preference changes once the page has constructed
\* and initialised the controller (main.js does both in one task).
TiltPreferenceChange ==
  /\ tiltPhase # "new"
  /\ prefersReduced' = ~prefersReduced
  /\ IF tiltWired
       THEN /\ tiltReduced' = ~prefersReduced
            /\ cards' = IF ~prefersReduced THEN resetAllCards ELSE cards
       ELSE UNCHANGED <<tiltReduced, cards>>
  /\ tiltOp' = TiltOp("change", Null, NoRect, 0, 0)
  /\ UNCHANGED <<tiltPhase, tiltWired, tiltCards, hovered>>

\* destroy(): removeEventListener is given functions that were never
\* registered, so the cards keep their listeners; this.cards is emptied.
TiltDestroy ==
  /\ tiltPhase = "ready"
  /\ tiltPhase' = "destroyed"
  /\ tiltCards' = {}
  /\ tiltOp' = TiltOp("destroy", Null, NoRect, 0, 0)
  /\ UNCHANGED <<tiltReduced, tiltWired, cards, hovered, prefersReduced>>

-----------------------------------------------------------------------------
(***************************************************************************)
(* DigitalRainRenderer: frames drawn without end                           *)
(***************************************************************************)

\* Rows below the top beyond which positions are no longer told apart; it
\* lies below the bottom edge of every canvas of FallSetups, and draw() reads
\* a position only to compare it with that edge.
MaxFallRows == 3

\* Frames counted.
MaxFrames == 1

\* Configurations and window widths of the renderers followed: one column
\* of the default configuration, two columns of one glyph and one speed. The canvas
\* is 20 pixels high, so the bottom edge is about one row down.
FallSetups ==
  { [cfg |-> DefaultConfig, width |-> 20],
    [cfg |-> [fontSize |-> 16, characters |-> <<"x">>,
              minSpeed |-> 5000, maxSpeed |-> 5000], width |-> 40] }

\* Math.random() results (in thousandths) for the start positions of the
\* columns: at the top, or half a row above it.
FallStarts == <<0, 5>>

\* One more frame of a renderer that keeps drawing: draw().
FallFrame(seed) ==
  \E g \in {DrawColumns(1, Grid, seed, 0)} :
  /\ drops' = [i \in 1..columns |-> Min(g.drops[i], MaxFallRows * RowUnit)]
  /\ speeds' = g.speeds
  /\ characters' = g.characters
  /\ charChangeCounters' = g.counters
  /\ painted' = g.painted
  /\ frames' = Min(frames + 1, MaxFrames)
  /\ surface' = "frame"
  /\ rainOp' = "frame"
  /\ UNCHANGED <<config, canvasWidth, canvasHeight, columns, resizes>>
  /\ UNCHANGED <<isRunning, animationId, lastFrameTime, rafPending, now,
                 afterStop, started>>

\* A frame in which the random choice puts column i, which is below the
\* bottom edge, back to the top.
FallReset(i) ==
  /\ i <= columns
  /\ OffScreen(drops[i] * config.fontSize)
  /\ \E seed \in Seeds :
       /\ FallFrame(seed)
       /\ UNCHANGED <<pageVars, revealVars, tiltVars, siteVars>>
       /\ drops'[i] = 0

-----------------------------------------------------------------------------
(***************************************************************************)
(* The start-up scripts: js/main.js and its variant unnamed/part_000       *)
(***************************************************************************)

Components == {"digitalRain", "navigation", "globalScrollObserver",
               "animations", "contactForm", "projectCards"}

\* The class each init function constructs.
ClassOf ==
  [digitalRain |-> "DigitalRainRenderer",
   navigation |-> "NavigationController",
   globalScrollObserver |-> "GlobalScrollObserver",
   animations |-> "AnimationController",
   contactForm |-> "ContactFormController",
   projectCards |-> "ProjectCardController"]

\* The elements a component looks up by id and cannot work without.
ElementsOf ==
  [digitalRain |-> {"digital-rain"},
   navigation |-> {"navbar", "hamburger", "nav-links"},
   globalScrollObserver |-> {},
   animations |-> {},
   contactForm |-> {"contact-form"},
   projectCards |-> {}]

\* Everything a page may or may not have.
Handles ==
  {ClassOf[c] : c \in Components}
    \cup UNION {ElementsOf[c] : c \in Components}
    \cup {"loading-screen", "matrix-entry"}

\* initDigitalRain() ... initProjectCards(): the function returns a
\* controller unless the class is undefined; initDigitalRain() also returns
\* null without a canvas or under reduced motion.
Returned(c) ==
  /\ ClassOf[c] \in present
  /\ c = "digitalRain" => "digital-rain" \in present /\ ~prefersReduced

\* The controller's init() did its work: NavigationController.init() and
\* ContactFormController.init() return at once when their elements are
\* missing.
SetUp(c) ==
  /\ Returned(c)
  /\ ElementsOf[c] \subseteq present

\* The components init() initialises, and those part_000 leaves to the end
\* of the entry animation.
EarlyComponents(script) ==
  IF script = "main.js" THEN Components ELSE {"contactForm"}

LateComponents == Components \ {"contactForm"}

\* hideLoadingScreen(): the timers it starts, in the order they fire
\* (main.js: 3800 and 5200 ms; part_000: 3800, 3900, 5100, 5300, 6300 and
\* 7300 ms), or none when an element it needs is missing.
hideLoadingScreen(script) ==
  IF script = "main.js"
    THEN IF "loading-screen" \in present
           THEN <<"hide", "remove">>
           ELSE <<>>
    ELSE IF {"loading-screen", "matrix-entry"} \subseteq present
           THEN <<"enter", "hide", "remove", "zoom", "reveal", "cleanup">>
           ELSE <<>>

\* The page before its DOM is ready.
BootInit(script, handles) ==
  /\ bootScript = script
  /\ present = handles
  /\ bootPhase = <<"ready">>
  /\ controllers = {}
  /\ wired = {}
  /\ screen = {}
  /\ digitalRainInstance = "pending"

\* The DOMContentLoaded handler of js/digital-rain.js, the script that
\* defines DigitalRainRenderer; it is registered before the start-up
\* script's handler and runs first. With a canvas it paints the static
\* picture under reduced motion and otherwise constructs, init()s and
\* start()s a renderer of its own.
AutoInit ==
  /\ bootPhase = <<"ready">>
  /\ digitalRainInstance = "pending"
  /\ "DigitalRainRenderer" \in present
  /\ digitalRainInstance' =
       IF "digital-rain" \notin present THEN "null"
       ELSE IF prefersReduced THEN "static"
       ELSE "started"
  /\ UNCHANGED <<bootScript, present, bootPhase, controllers, wired, screen>>

\* The DOM is ready: init(), then hideLoadingScreen().
DomReady ==
  /\ bootPhase = <<"ready">>
  /\ controllers' = {c \in EarlyComponents(bootScript) : Returned(c)}
  /\ wired' = {c \in EarlyComponents(bootScript) : SetUp(c)}
  /\ bootPhase' = hideLoadingScreen(bootScript)
  /\ UNCHANGED <<bootScript, present, screen, digitalRainInstance>>

\* The next timer of hideLoadingScreen() fires.
BootTimer ==
  /\ bootPhase # <<>>
  /\ Head(bootPhase) # "ready"
  /\ bootPhase' = Tail(bootPhase)
  /\ screen' =
       CASE Head(bootPhase) = "enter" -> screen \cup {"entry-active"}
         [] Head(bootPhase) = "hide" -> screen \cup {"loading-hidden"}
         [] Head(bootPhase) = "remove" -> screen \cup {"loading-none"}
         [] Head(bootPhase) = "zoom" -> screen \cup {"entry-zoom-in"}
         [] Head(bootPhase) = "reveal" -> screen \cup {"main-site-visible"}
         [] Head(bootPhase) = "cleanup" -> screen \cup {"entry-none"}
  /\ IF Head(bootPhase) = "reveal"
       THEN /\ controllers' =
                 controllers \cup {c \in LateComponents : Returned(c)}
            /\ wired' = wired \cup {c \in LateComponents : SetUp(c)}
       ELSE UNCHANGED <<controllers, wired>>
  /\ UNCHANGED <<bootScript, present, digitalRainInstance>>

-----------------------------------------------------------------------------
(***************************************************************************)
(* ContactFormController (js/contact-form.js)                              *)
(***************************************************************************)

\* Simulated submissions that may be pending at once.
MaxSubmissions == 2

Fields == {"name", "email", "subject", "message"}

\* Values of the inputs, as sequences of characters.
ValuesOf(f) ==
  IF f = "email"
    THEN { <<>>, <<" ">>,
           <<"a", "@", "b", ".", "c">>,
           <<"a", "@", "b">>,
           <<" ", "a", "@", "b", ".", "c">> }
    ELSE { <<>>, <<" ">>, <<"R">> }

\* String.prototype.trim().
RECURSIVE trim(_)
trim(s) ==
  IF s = <<>> THEN s
  ELSE IF Head(s) = " " THEN trim(Tail(s))
  ELSE IF s[Len(s)] = " " THEN trim(SubSeq(s, 1, Len(s) - 1))
  ELSE s

\* this.emailRegex.test(s) for /^[^\s@]+@[^\s@]+\.[^\s@]+$/.
emailRegex(s) ==
  \E i, j \in 1..Len(s) :
    /\ 1 < i /\ i + 1 < j /\ j < Len(s)
    /\ s[i] = "@"
    /\ s[j] = "."
    /\ \A k \in 1..Len(s) : s[k] # " " /\ (s[k] = "@" => k = i)

\* validate(data): the message of each field, "" for a field without one.
validate(data) ==
  [f \in Fields |->
     CASE f = "name" ->
            IF trim(data[f]) = <<>> THEN "Name is required" ELSE ""
       [] f = "email" ->
            IF trim(data[f]) = <<>> THEN "Email is required"
            ELSE IF ~emailRegex(data[f]) THEN "Please enter a valid email"
            ELSE ""
       [] f = "subject" ->
            IF trim(data[f]) = <<>> THEN "Subject is required" ELSE ""
       [] f = "message" ->
            IF trim(data[f]) = <<>> THEN "Message is required" ELSE ""]

NoError == [textContent |-> "", visible |-> FALSE]

\* The form after init() found it, with empty inputs.
FormInit ==
  /\ fields = [f \in Fields |-> [value |-> <<>>, error |-> FALSE]]
  /\ errors = [f \in Fields |-> NoError]
  /\ formMessage = [textContent |-> "", classes |-> {}]
  /\ submissions = 0
  /\ formOp = [kind |-> "init", valid |-> FALSE, submitted |-> FALSE]

\* The user edits a field: the 'input' listener runs clearFieldError(field).
Input(f, v) ==
  /\ fields[f].value # v
  /\ fields' = [fields EXCEPT ![f] = [value |-> v, error |-> FALSE]]
  /\ errors' = [errors EXCEPT ![f] = NoError]
  /\ formOp' = [kind |-> "input", valid |-> FALSE, submitted |-> FALSE]
  /\ UNCHANGED <<formMessage, submissions>>

\* A script assigns field.value; no 'input' event is dispatched.
Assign(f, v) ==
  /\ fields[f].value # v
  /\ fields' = [fields EXCEPT ![f].value = v]
  /\ formOp' = [kind |-> "assign", valid |-> FALSE, submitted |-> FALSE]
  /\ UNCHANGED <<errors, formMessage, submissions>>

\* displayErrors(errors): clearAllErrors(), then one entry per message.
displayErrors(messages) ==
  /\ fields' = [f \in Fields |->
                  [fields[f] EXCEPT !.error = messages[f] # ""]]
  /\ errors' = [f \in Fields |->
                  IF messages[f] # ""
                    THEN [textContent |-> messages[f], visible |-> TRUE]
                    ELSE NoError]
  /\ formMessage' =
       [formMessage EXCEPT !.classes = @ \ {"visible", "success", "error"}]

\* handleSubmit(e): the 'submit' event of the form; getFormData() reads the
\* values of the four inputs.
handleSubmit ==
  LET getFormData == [f \in Fields |-> fields[f].value]
      validation == validate(getFormData)
      isValid == \A f \in Fields : validation[f] = ""
  IN /\ submissions < MaxSubmissions
     /\ formOp' = [kind |-> "submit", valid |-> isValid,
                   submitted |-> isValid]
     /\ IF ~isValid
          THEN /\ displayErrors(validation)
               /\ UNCHANGED submissions
          ELSE /\ submissions' = submissions + 1
               /\ UNCHANGED <<fields, errors, formMessage>>

\* The 500 ms of a simulated submission have passed: submit() goes on with
\* showSuccess() and clearForm(), that is form.reset() and clearAllErrors().
SubmitDone ==
  LET showSuccess ==
        [textContent |-> "Message sent successfully!",
         classes |-> (formMessage.classes \ {"error"})
                       \cup {"success", "visible"}]
  IN
  /\ submissions > 0
  /\ submissions' = submissions - 1
  /\ fields' = [f \in Fields |-> [value |-> <<>>, error |-> FALSE]]
  /\ errors' = [f \in Fields |-> NoError]
  /\ formMessage' =
       [showSuccess EXCEPT !.classes = @ \ {"visible", "success", "error"}]
  /\ formOp' = [kind |-> "done", valid |-> TRUE, submitted |-> FALSE]

-----------------------------------------------------------------------------
(***************************************************************************)
(* Initial states and specifications                                       *)
(***************************************************************************)

\* The page before any script has run on its elements.
DomInit(els) ==
  /\ elems = els
  /\ timers = <<>>
  /\ revOp = [op |-> "new", el |-> Null, fired |-> <<>>]
  /\ sessions = 0

\* The observer's owner has been constructed (GlobalScrollObserver creates
\* its observer in its constructor; AnimationController in init()), nothing
\* is observed and every element is outside the viewport.
ObsInit(owner, motion) ==
  /\ obsOwner = owner
  /\ gsReducedMotion = motion
  /\ gsObserver = IF owner = "GlobalScrollObserver" THEN "live" ELSE "null"
  /\ targets = <<>>
  /\ inView = [e \in Elements |-> FALSE]
  /\ queue = <<>>
  /\ phase = [e \in Elements |-> "pending"]

\* An element that is no reveal target.
Plain == Element({}, FALSE, "", "", FALSE)

NoReveal == [e \in Elements |-> Plain]

\* Pages of reveal targets without text animation: e1 carries one or two
\* animation classes (or none), e2 is a fade-in element.
ObsPages ==
  { [e \in Elements |->
       IF e = "e1" THEN Element(cs, FALSE, "", "", FALSE)
       ELSE Element({"fade-in"}, FALSE, "", "", FALSE)] :
    cs \in { {"fade-in"}, {"fade-in", "slide-in-left"},
             {"pulse-glow", "skill-reveal"}, {} } }

\* The page before its scripts have run: the renderer under study will be
\* started by the given script.
\* ---- the start-up script and the contact form, before anything ran ----
SiteInit ==
  /\ BootInit("main.js", {})
  /\ FormInit

PageInit(owner, reduced) ==
  /\ prefersReduced = reduced
  /\ rainOwner = owner
  /\ rainLoaded = FALSE
  /\ rainListener = FALSE

\* ---- the render loop of one DigitalRainRenderer ----
InitRain ==
  /\ RainInit
  /\ GridInit(DefaultConfig)
  /\ PageInit("main.js", FALSE)
  /\ SiteInit
  /\ TiltInitial(FALSE)
  /\ CycleConstructed(FALSE, TRUE, HeroTexts, defaultTypewriterSpeed)
  /\ DomInit(NoReveal)
  /\ ObsInit("AnimationController", FALSE)

RainNext ==
  \/ \E dt \in TickSteps :
       Elapse(dt) /\ UNCHANGED <<pageVars, revealVars, tiltVars, siteVars>>
  \/ Start /\ UNCHANGED <<pageVars, revealVars, tiltVars, siteVars>>
  \/ Stop /\ UNCHANGED <<pageVars, revealVars, tiltVars, siteVars>>
  \/ \E dt \in TickSteps :
       Tick(dt) /\ UNCHANGED <<pageVars, revealVars, tiltVars, siteVars>>
  \/ \E dt \in TickSteps :
       LateTick(dt) /\ UNCHANGED <<pageVars, revealVars, tiltVars, siteVars>>

SpecRain == InitRain /\ [][RainNext]_vars

\* ---- the columns of one DigitalRainRenderer ----

\* Frames are one frame interval apart.
GridSteps == {frameInterval}

InitGrid ==
  /\ RainInit
  /\ \E cfg \in Configs : GridInit(cfg)
  /\ PageInit("main.js", FALSE)
  /\ SiteInit
  /\ TiltInitial(FALSE)
  /\ CycleConstructed(FALSE, TRUE, HeroTexts, defaultTypewriterSpeed)
  /\ DomInit(NoReveal)
  /\ ObsInit("AnimationController", FALSE)

GridNext ==
  \/ \E size \in WindowSizes, seed \in Seeds :
       Resize(size[1], size[2], seed)
         /\ UNCHANGED <<pageVars, revealVars, tiltVars, siteVars>>
  \/ Start /\ UNCHANGED <<pageVars, revealVars, tiltVars, siteVars>>
  \/ Stop /\ UNCHANGED <<pageVars, revealVars, tiltVars, siteVars>>
  \/ RainDestroy /\ UNCHANGED <<pageVars, revealVars, tiltVars, siteVars>>
  \/ \E dt \in GridSteps :
       Tick(dt) /\ UNCHANGED <<pageVars, revealVars, tiltVars, siteVars>>

SpecGrid == InitGrid /\ [][GridNext]_vars

\* ---- a renderer that keeps drawing frames, with a fair random choice ----
\* The renderer after its constructor and init() in a small window.
InitFall ==
  /\ isRunning = FALSE
  /\ animationId = NoId
  /\ lastFrameTime = 0
  /\ frames = 0
  /\ surface = "blank"
  /\ rafPending = {}
  /\ now = 0
  /\ afterStop = FALSE
  /\ started = [time |-> 0, frames |-> 0]
  /\ rainOp = "resize"
  /\ \E setup \in FallSetups, seed \in Seeds :
       /\ config = setup.cfg
       /\ canvasWidth = setup.width
       /\ canvasHeight = 20
       /\ columns = ResizeColumns(setup.width)
       /\ drops = [i \in 1..columns |->
                     RandomDrop(FallStarts[((seed + i) % 2) + 1])]
       /\ speeds = [i \in 1..columns |->
                      RandomSpeed(Rand(seed, 4 * (i - 1) + 1))]
       /\ characters = [i \in 1..columns |->
                          getRandomCharacter(Rand(seed, 4 * (i - 1) + 2))]
       /\ charChangeCounters = [i \in 1..columns |->
                                  RandomCounter(Rand(seed, 4 * (i - 1) + 3))]
  /\ painted = <<>>
  /\ resizes = 1
  /\ PageInit("main.js", FALSE)
  /\ SiteInit
  /\ TiltInitial(FALSE)
  /\ CycleConstructed(FALSE, TRUE, HeroTexts, defaultTypewriterSpeed)
  /\ DomInit(NoReveal)
  /\ ObsInit("AnimationController", FALSE)

FallNext ==
  \E seed \in Seeds :
    FallFrame(seed) /\ UNCHANGED <<pageVars, revealVars, tiltVars, siteVars>>

\* Frames keep coming, and a column that is below the bottom edge again and
\* again is not refused the reset for ever.
SpecFall ==
  /\ InitFall
  /\ [][FallNext]_vars
  /\ WF_vars(\E seed \in Seeds :
               FallFrame(seed) /\ UNCHANGED <<pageVars, revealVars, tiltVars, siteVars>>)
  /\ \A i \in 1..2 : SF_vars(FallReset(i))

\* ---- the page's scripts, the preference and one renderer ----

\* Window sizes of the page.
PageSizes == { <<40, 20>>, <<375, 667>> }

InitPage ==
  /\ RainInit
  /\ GridInit(DefaultConfig)
  /\ \E owner \in RainOwners, reduced \in BOOLEAN : PageInit(owner, reduced)
  /\ SiteInit
  /\ TiltInitial(FALSE)
  /\ CycleConstructed(FALSE, TRUE, HeroTexts, defaultTypewriterSpeed)
  /\ DomInit(NoReveal)
  /\ ObsInit("AnimationController", FALSE)

PageNext ==
  \/ \E size \in PageSizes, seed \in Seeds :
       PageLoad(size[1], size[2], seed)
         /\ UNCHANGED <<revealVars, tiltVars, siteVars>>
  \/ PreferenceChange /\ UNCHANGED <<revealVars, tiltVars, siteVars>>
  \/ \E size \in PageSizes, seed \in Seeds :
       WindowResize(size[1], size[2], seed)
         /\ UNCHANGED <<pageVars, revealVars, tiltVars, siteVars>>
  \/ \E dt \in GridSteps :
       Tick(dt) /\ UNCHANGED <<pageVars, revealVars, tiltVars, siteVars>>

SpecPage == InitPage /\ [][PageNext]_vars

\* ---- one AnimationController and its hero cycling typewriter ----
InitCycle ==
  /\ RainInit
  /\ GridInit(DefaultConfig)
  /\ PageInit("main.js", FALSE)
  /\ SiteInit
  /\ TiltInitial(FALSE)
  /\ \E motion \in BOOLEAN, texts \in TextLists, speed \in Speeds :
       CycleConstructed(motion, TRUE, texts, speed)
  /\ DomInit(NoReveal)
  /\ ObsInit("AnimationController", FALSE)

CycleNext ==
  \/ InitController /\ UNCHANGED <<canvasVars, tiltVars, siteVars>>
  \/ MotionChange /\ UNCHANGED <<canvasVars, tiltVars, siteVars>>
  \/ Destroy /\ UNCHANGED <<canvasVars, tiltVars, siteVars>>
  \/ CycleTimerFire /\ UNCHANGED <<canvasVars, tiltVars, siteVars>>

SpecCycle == InitCycle /\ [][CycleNext]_vars

\* ---- a cycling session that runs for ever ----
InitForever ==
  /\ RainInit
  /\ GridInit(DefaultConfig)
  /\ PageInit("main.js", FALSE)
  /\ SiteInit
  /\ TiltInitial(FALSE)
  /\ \E texts \in TextLists, speed \in Speeds :
       CycleConstructed(FALSE, TRUE, texts, speed)
  /\ DomInit(NoReveal)
  /\ ObsInit("AnimationController", FALSE)

ForeverNext ==
  \/ InitController /\ UNCHANGED <<canvasVars, tiltVars, siteVars>>
  \/ CycleRun /\ UNCHANGED <<canvasVars, tiltVars, siteVars>>

\* init() runs once the DOM is ready, and a timer that is due fires.
SpecForever ==
  /\ InitForever
  /\ [][ForeverNext]_vars
  /\ WF_vars(InitController /\ UNCHANGED <<canvasVars, tiltVars, siteVars>>)
  /\ WF_vars(CycleRun /\ UNCHANGED <<canvasVars, tiltVars, siteVars>>)

\* ---- one observer (of either owner) over reveal targets ----
InitObs ==
  /\ RainInit
  /\ GridInit(DefaultConfig)
  /\ PageInit("main.js", FALSE)
  /\ SiteInit
  /\ TiltInitial(FALSE)
  /\ \E motion \in BOOLEAN, owner \in {"AnimationController",
                                       "GlobalScrollObserver"} :
       /\ CycleConstructed(motion, FALSE, HeroTexts, defaultTypewriterSpeed)
       /\ ObsInit(owner, motion)
  /\ \E els \in ObsPages : DomInit(els)

ObsNext ==
  \/ \E e \in Elements : Scroll(e) /\ UNCHANGED <<canvasVars, tiltVars, siteVars, acVars, cycleVars>>
  \/ Frame /\ UNCHANGED <<canvasVars, tiltVars, siteVars, acVars, cycleVars>>
  \/ GsCallback /\ UNCHANGED <<canvasVars, tiltVars, siteVars, acVars, cycleVars>>
  \/ \E e \in Elements \cup {Null} :
       GsObserve(e) /\ UNCHANGED <<canvasVars, tiltVars, siteVars, acVars, cycleVars>>
  \/ \E e \in Elements \cup {Null} :
       GsUnobserve(e) /\ UNCHANGED <<canvasVars, tiltVars, siteVars, acVars, cycleVars>>
  \/ GsDestroy /\ UNCHANGED <<canvasVars, tiltVars, siteVars, acVars, cycleVars>>
  \/ GsMotionChange /\ UNCHANGED <<canvasVars, tiltVars, siteVars, acVars, cycleVars>>
  \/ InitController /\ UNCHANGED <<canvasVars, tiltVars, siteVars>>
  \/ MotionChange /\ UNCHANGED <<canvasVars, tiltVars, siteVars>>
  \/ Destroy /\ UNCHANGED <<canvasVars, tiltVars, siteVars>>
  \/ AcCallback /\ UNCHANGED <<canvasVars, tiltVars, siteVars>>

SpecObs == InitObs /\ [][ObsNext]_vars

\* ---- one AnimationController over a typewriter reveal target ----

\* The element the triggers are called on.
RevealTargets == {"e1"}

\* Pages with one reveal target: e1 is a '.typewriter' element, a
\* '.typewriter-scroll' element with a data-text attribute, or the
\* '.fade-in.about-content' container with its two paragraphs.
RevealPages ==
  { [e \in Elements |->
       IF e = "e1" THEN el ELSE Plain] :
    el \in { Element({"typewriter"}, FALSE, "ab", "", FALSE),
             Element({"typewriter-scroll"}, FALSE, "ab", "xy", FALSE),
             Element({"fade-in", "about-content"}, FALSE, "", "", TRUE) } }

\* Arguments of the direct trigger calls and of animate().
TriggerTexts == {"xy"}

AnimationTypes == {"glitch", "typewriter", "fade", "spin"}

InitReveal ==
  /\ RainInit
  /\ GridInit(DefaultConfig)
  /\ PageInit("main.js", FALSE)
  /\ SiteInit
  /\ TiltInitial(FALSE)
  /\ \E motion \in BOOLEAN :
       CycleConstructed(motion, FALSE, HeroTexts, defaultTypewriterSpeed)
  /\ \E els \in RevealPages : DomInit(els)
  /\ ObsInit("AnimationController", FALSE)

RevealNext ==
  \/ InitController /\ UNCHANGED <<canvasVars, tiltVars, siteVars>>
  \/ Destroy /\ UNCHANGED <<canvasVars, tiltVars, siteVars>>
  \/ \E e \in RevealTargets : Scroll(e) /\ UNCHANGED <<canvasVars, tiltVars, siteVars, acVars, cycleVars>>
  \/ Frame /\ UNCHANGED <<canvasVars, tiltVars, siteVars, acVars, cycleVars>>
  \/ AcCallback /\ UNCHANGED <<canvasVars, tiltVars, siteVars>>
  \/ \E e \in RevealTargets, type \in AnimationTypes :
       AnimateManual(e, type) /\ UNCHANGED <<canvasVars, tiltVars, siteVars>>
  \/ \E e \in RevealTargets, text \in TriggerTexts :
       DirectTypewriter(e, text, defaultTypewriterSpeed) /\ UNCHANGED <<canvasVars, tiltVars, siteVars>>
  \/ \E e \in RevealTargets :
       DirectScrollTypewriter(e) /\ UNCHANGED <<canvasVars, tiltVars, siteVars>>
  \/ TimerFire /\ UNCHANGED <<canvasVars, tiltVars, siteVars>>

SpecReveal == InitReveal /\ [][RevealNext]_vars

\* ---- one typewriter or scroll-typewriter session on one element ----

\* Texts and speeds of the session.
TypeTexts == {"B4Y0N3TTA", "Rae", "A"}

TypeSpeeds == {defaultTypewriterSpeed, observerTypewriterSpeed}

InitType ==
  /\ RainInit
  /\ GridInit(DefaultConfig)
  /\ PageInit("main.js", FALSE)
  /\ SiteInit
  /\ TiltInitial(FALSE)
  /\ CycleConstructed(FALSE, FALSE, HeroTexts, defaultTypewriterSpeed)
  /\ \E data \in {"", "Rae"} :
       DomInit([e \in Elements |->
                 IF e = "e1" THEN Element({"typewriter"}, FALSE, "B4Y0N3TTA",
                                          data, FALSE)
                 ELSE Plain])
  /\ ObsInit("AnimationController", FALSE)

TypeNext ==
  \/ InitController /\ UNCHANGED <<canvasVars, tiltVars, siteVars>>
  \/ \E text \in TypeTexts, speed \in TypeSpeeds :
       TypeOnce("e1", text, speed) /\ UNCHANGED <<canvasVars, tiltVars, siteVars>>
  \/ (sessions = 0 /\ DirectScrollTypewriter("e1"))
       /\ UNCHANGED <<canvasVars, tiltVars, siteVars>>
  \/ TimerFire /\ UNCHANGED <<canvasVars, tiltVars, siteVars>>
  \/ \E dt \in ElapseSteps : PageElapse(dt) /\ UNCHANGED <<canvasVars, tiltVars, siteVars>>

SpecType == InitType /\ [][TypeNext]_vars

\* ---- two typewriter sessions, one on each of two elements ----
InitPair ==
  /\ RainInit
  /\ GridInit(DefaultConfig)
  /\ PageInit("main.js", FALSE)
  /\ SiteInit
  /\ TiltInitial(FALSE)
  /\ CycleConstructed(FALSE, FALSE, HeroTexts, defaultTypewriterSpeed)
  /\ DomInit([e \in Elements |->
                IF e = "e1"
                  THEN Element({"typewriter"}, FALSE, "Rae", "", FALSE)
                  ELSE Element({"typewriter-scroll"}, FALSE, "B4Y0", "",
                               FALSE)])
  /\ ObsInit("AnimationController", FALSE)

PairNext ==
  \/ InitController /\ UNCHANGED <<canvasVars, tiltVars, siteVars>>
  \/ \E e \in Elements, speed \in TypeSpeeds :
       (elems[e].session = 0 /\ DirectTypewriter(e, elems[e].text, speed))
         /\ UNCHANGED <<canvasVars, tiltVars, siteVars>>
  \/ \E e \in Elements :
       (elems[e].session = 0 /\ DirectScrollTypewriter(e))
         /\ UNCHANGED <<canvasVars, tiltVars, siteVars>>
  \/ TimerFire /\ UNCHANGED <<canvasVars, tiltVars, siteVars>>
  \/ \E dt \in ElapseSteps :
       PageElapse(dt) /\ UNCHANGED <<canvasVars, tiltVars, siteVars>>

SpecPair == InitPair /\ [][PairNext]_vars

\* ---- one ProjectCardController over the project cards ----
InitTilt ==
  /\ RainInit
  /\ GridInit(DefaultConfig)
  /\ \E reduced \in BOOLEAN :
       /\ PageInit("main.js", reduced)
       /\ SiteInit
       /\ TiltInitial(reduced)
  /\ CycleConstructed(FALSE, TRUE, HeroTexts, defaultTypewriterSpeed)
  /\ DomInit(NoReveal)
  /\ ObsInit("AnimationController", FALSE)

TiltNext ==
  \/ TiltInit
       /\ UNCHANGED <<rainVars, gridVars, rainOwner, rainLoaded,
                      rainListener, revealVars, siteVars>>
  \/ \E c \in Cards :
       PointerEnter(c)
         /\ UNCHANGED <<rainVars, gridVars, rainOwner, rainLoaded,
                        rainListener, revealVars, siteVars>>
  \/ \E c \in Cards, rect \in TiltRects :
       \E clientX \in PointerXs(rect), clientY \in PointerYs(rect) :
         PointerMove(c, rect, clientX, clientY)
           /\ UNCHANGED <<rainVars, gridVars, rainOwner, rainLoaded,
                          rainListener, revealVars, siteVars>>
  \/ \E c \in Cards :
       PointerLeave(c)
         /\ UNCHANGED <<rainVars, gridVars, rainOwner, rainLoaded,
                        rainListener, revealVars, siteVars>>
  \/ TiltPreferenceChange
       /\ UNCHANGED <<rainVars, gridVars, rainOwner, rainLoaded,
                      rainListener, revealVars, siteVars>>
  \/ TiltDestroy
       /\ UNCHANGED <<rainVars, gridVars, rainOwner, rainLoaded,
                      rainListener, revealVars, siteVars>>

SpecTilt == InitTilt /\ [][TiltNext]_vars

\* ---- the start-up script on a page that may lack classes and elements ----
InitBoot ==
  /\ RainInit
  /\ GridInit(DefaultConfig)
  /\ \E reduced \in BOOLEAN : PageInit("main.js", reduced)
  /\ TiltInitial(FALSE)
  /\ CycleConstructed(FALSE, TRUE, HeroTexts, defaultTypewriterSpeed)
  /\ DomInit(NoReveal)
  /\ ObsInit("AnimationController", FALSE)
  /\ \E script \in {"main.js", "part_000"}, handles \in SUBSET Handles :
       BootInit(script, handles)
  /\ FormInit

BootNext ==
  \/ AutoInit /\ UNCHANGED <<canvasVars, revealVars, tiltVars, formVars>>
  \/ DomReady /\ UNCHANGED <<canvasVars, revealVars, tiltVars, formVars>>
  \/ BootTimer /\ UNCHANGED <<canvasVars, revealVars, tiltVars, formVars>>

SpecBoot == InitBoot /\ [][BootNext]_vars

\* ---- the contact form after init() ----
InitForm ==
  /\ RainInit
  /\ GridInit(DefaultConfig)
  /\ PageInit("main.js", FALSE)
  /\ TiltInitial(FALSE)
  /\ CycleConstructed(FALSE, TRUE, HeroTexts, defaultTypewriterSpeed)
  /\ DomInit(NoReveal)
  /\ ObsInit("AnimationController", FALSE)
  /\ BootInit("main.js", {})
  /\ FormInit

FormNext ==
  \/ \E f \in Fields : \E v \in ValuesOf(f) :
       Input(f, v) /\ UNCHANGED <<canvasVars, revealVars, tiltVars, bootVars>>
  \/ \E f \in Fields : \E v \in ValuesOf(f) :
       Assign(f, v) /\ UNCHANGED <<canvasVars, revealVars, tiltVars, bootVars>>
  \/ handleSubmit /\ UNCHANGED <<canvasVars, revealVars, tiltVars, bootVars>>
  \/ SubmitDone /\ UNCHANGED <<canvasVars, revealVars, tiltVars, bootVars>>

SpecForm == InitForm /\ [][FormNext]_vars

-----------------------------------------------------------------------------
(***************************************************************************)
(* Claims about the render loop (checked under SpecRain)                   *)
(***************************************************************************)

\* C3: after stop() returns no rain frame is drawn (and nothing is painted)
\* until a later start(), whatever ticks are still delivered; and every
\* stop(), also one on a renderer that is not running, leaves the renderer
\* stopped with no handle held and no animation-frame request pending.
C3_NoFrameAfterStop ==
  [][ /\ (afterStop /\ rainOp' # "start")
          => (frames' = frames /\ surface' = surface)
      /\ (rainOp' = "stop")
          => (~isRunning' /\ animationId' = NoId /\ rafPending' = {})
    ]_vars

\* A tick reached animate() after stop() returned, on a renderer that had
\* drawn frames before.
C3_Witness ==
  afterStop /\ rainOp = "latetick" /\ frames >= 1

\* C4: start() on a running renderer requests no second animation frame,
\* does not reset lastFrameTime and does not repaint the surface; at most
\* one request is pending afterwards.
C4_StartIdempotent ==
  [][ (isRunning /\ rainOp' = "start")
        => /\ UNCHANGED <<isRunning, animationId, lastFrameTime, frames,
                          surface, rafPending>>
           /\ Cardinality(rafPending') <= 1
    ]_vars

\* start() was called on a running renderer that had already drawn a frame
\* some time ago.
C4_Witness ==
  isRunning /\ rainOp = "start" /\ surface = "frame" /\ lastFrameTime < now

\* C5: on a tick while running a frame is drawn iff
\* timestamp - lastFrameTime >= frameInterval; then lastFrameTime advances by
\* a positive whole number of frameIntervals and ends within one
\* frameInterval of the timestamp; otherwise lastFrameTime is unchanged.
C5_FrameThrottle ==
  [][ (isRunning /\ rainOp' = "tick" /\ now' > now)
        => LET elapsed == now' - lastFrameTime
           IN /\ frames' \in {frames, frames + 1}
              /\ (frames' = frames + 1) <=> (elapsed >= frameInterval)
              /\ (elapsed >= frameInterval)
                   => /\ \E k \in 1..(MaxNow \div frameInterval + 1) :
                           lastFrameTime' = lastFrameTime + k * frameInterval
                      /\ 0 <= now' - lastFrameTime'
                      /\ now' - lastFrameTime' < frameInterval
              /\ (elapsed < frameInterval)
                   => lastFrameTime' = lastFrameTime
    ]_vars

\* A frame was drawn on a tick whose timestamp is not a whole number of
\* intervals after the previous frame: a remainder is carried forward.
C5_Witness ==
  /\ isRunning /\ rainOp = "tick" /\ surface = "frame"
  /\ frames >= 2
  /\ lastFrameTime < now

\* C14: whatever the sequence of reduced-motion preference changes after the
\* page has started, no rain frame is drawn by a renderer the page started
\* while the reduced-motion preference is set.
C14_NoFrameUnderReducedMotion ==
  [][frames' # frames => ~prefersReduced']_vars

\* C37: under any interleaving of start(), stop(), resize(), destroy() and
\* animation-clock ticks on one renderer, at most one animation-frame
\* request is pending, and between callbacks a request is pending exactly
\* when isRunning is true; the pending request is the one the renderer holds.
C37_OneRequest ==
  /\ Cardinality(rafPending) <= 1
  /\ (rafPending # {}) <=> isRunning
  /\ rafPending = IF isRunning THEN {animationId} ELSE {}

\* The renderer was started for the second time, after a stop() or a
\* destroy(), has drawn frames since, and holds one pending request.
C37_Witness ==
  /\ isRunning
  /\ rainOp = "tick"
  /\ started.time > 0
  /\ frames > started.frames
  /\ resizes > 1
  /\ Cardinality(rafPending) = 1

\* C36: from start() onward, whatever the spacing of the animation-clock
\* ticks, the number of frames drawn up to a tick with timestamp t is at
\* most floor((t - startTime) / frameInterval), startTime being the
\* lastFrameTime set by start(); the reference time of the throttle never
\* runs ahead of startTime plus one interval per frame drawn.
C36_FrameCap ==
  LET drawn == frames - started.frames
  IN /\ drawn <= (now - started.time) \div frameInterval
     /\ isRunning =>
           /\ started.time + drawn * frameInterval <= lastFrameTime
           /\ lastFrameTime <= now

\* A renderer started after the clock had advanced has drawn, on ticks of
\* irregular spacing, as many frames as the cap allows, and the last tick
\* came part-way through an interval.
C36_Witness ==
  /\ isRunning /\ rainOp = "tick"
  /\ started.time > 0
  /\ frames - started.frames >= 2
  /\ frames - started.frames = (now - started.time) \div frameInterval
  /\ (now - started.time) % frameInterval # 0

\* C38: whenever the reduced-motion signal is cleared after the page has
\* started, also when it was set at page start, the rain is (re)started: the
\* renderer is running and holds a frame request, without which no frame is
\* drawn again.
C38_RestartOnClear ==
  [][(rainLoaded /\ prefersReduced /\ ~prefersReduced')
       => (isRunning' /\ rafPending' # {})]_vars

-----------------------------------------------------------------------------
(***************************************************************************)
(* Claims about the cycling typewriter (checked under SpecCycle)           *)
(***************************************************************************)

\* C8: after AnimationController.destroy() no further delayed step of a
\* running cycling session changes the hero element's text.
C8_NoStepAfterDestroy ==
  [][ acPhase = "destroyed" => heroText' = heroText ]_vars

C10_CycleIndex ==
  /\ [](textIndex = cycles % Len(cyTexts))
  /\ [][ textIndex' # textIndex
           => /\ heroText # "" /\ heroText' = ""
              /\ cyLast \in {"typed", "deleted"}
              /\ textIndex' = (textIndex + 1) % Len(cyTexts)
       ]_vars

\* For <<"Rae", "B4Y0N3TTA">>: two complete cycles were made and the session
\* is typing "Rae" again.
C10_Witness ==
  /\ cyTexts = <<"Rae", "B4Y0N3TTA">>
  /\ cycles = 2 /\ textIndex = 0
  /\ heroText = "Ra"

\* C13 -- under reduced motion the hero typewriter is static: when init()
\* runs with reducedMotion set, the hero element then shows the first string
\* of the list without a cursor and has no timer, and no later step gives a
\* session that was not started a timer.
C13_StaticHero ==
  [][/\ (acPhase = "new" /\ acPhase' = "ready" /\ reducedMotion /\ hasHero)
          => /\ heroText' = cyTexts[1]
             /\ ~heroCursor'
             /\ cyTimer' = NoTimer
     /\ (acPhase # "new" /\ cyTimer = NoTimer) => cyTimer' = NoTimer
    ]_vars

\* C33: after every step of a cycling session charIndex lies between 0 and
\* the length of the string the step worked on, and the text shown is the
\* first charIndex characters of that string.
C33_CharIndexInRange ==
  [][revOp'.op = "timer:cycle" =>
       LET currentText == cyTexts[textIndex + 1]
       IN /\ 0 <= charIndex'
          /\ charIndex' <= Len(currentText)
          /\ heroText' = SubSeq(currentText, 1, charIndex')]_vars

\* C32: a cycling session never ends and shows every string of its list in
\* full again and again, whatever the list.
C32_VisitsEveryString ==
  /\ [](acPhase = "ready" => cyTimer # NoTimer)
  /\ \A i \in 1..4 :
       []<>(i > Len(cyTexts) \/ (acPhase = "ready" /\ heroText = cyTexts[i]))

-----------------------------------------------------------------------------
(***************************************************************************)
(* Claims about the visibility observers                                   *)
(***************************************************************************)

\* The entries of a queue that are about element e.
EntriesFor(q, e) == SelectSeq(q, LAMBDA x : x.target = e)

\* How often element e occurs in a sequence of elements.
Occurrences(s, e) == Len(SelectSeq(s, LAMBDA x : x = e))

\* A step in which an observer callback ran on the queued entries.
CallbackStep == queue # <<>> /\ queue' = <<>>

\* C1 -- One-shot law. A callback run that handles an intersecting entry of
\* an element leaves the element unobserved, and while an element is not
\* observed and none of its entries is waiting, no step (a scroll that takes
\* it out of or back into the viewport, a rendering update, a callback run)
\* invokes the handler for it or queues an entry for it.
C1_OneShot ==
  [][\A e \in Elements :
       /\ (CallbackStep /\ Occurrences(revOp'.fired, e) > 0)
            => ~Registered(targets', e)
       /\ (~Registered(targets, e) /\ EntriesFor(queue, e) = <<>>)
            => /\ Occurrences(revOp'.fired, e) = 0
               /\ EntriesFor(queue', e) = <<>>]_vars

\* The handler ran for e1, after which e1 left the viewport and came back
\* into it, and nothing is observed or queued for it.
C1_Witness ==
  /\ phase["e1"] = "reentered"
  /\ inView["e1"]
  /\ ~Registered(targets, "e1")
  /\ EntriesFor(queue, "e1") = <<>>
  /\ \E c \in DOMAIN ANIMATION_CLASSES :
       ANIMATION_CLASSES[c][1] \in elems["e1"].classes

\* C2 -- Watch idempotence. However often observe() was called for it, an
\* element has at most one registration and null has none; a rendering
\* update queues one entry for a registered element whose intersection state
\* changed (so one, not two, when it first intersects) and none otherwise;
\* and a callback run invokes the handler at most once per intersecting
\* entry.
C2_WatchIdempotent ==
  /\ [](\A i, j \in DOMAIN targets :
          /\ targets[i].el \in Elements
          /\ targets[i].el = targets[j].el => i = j)
  /\ [][\A e \in Elements :
          /\ Len(queue') > Len(queue) =>
               Len(EntriesFor(queue', e)) - Len(EntriesFor(queue, e))
                 = IF \E i \in DOMAIN targets :
                        targets[i].el = e /\ targets[i].prev # Seen(e)
                     THEN 1 ELSE 0
          /\ CallbackStep =>
               Occurrences(revOp'.fired, e)
                 <= Len(SelectSeq(EntriesFor(queue, e),
                                  LAMBDA x : x.isIntersecting))]_vars

\* AnimationController's callback has handled e1 exactly once although e1
\* carries two of the observed classes and was passed to observe() twice.
C2_Witness ==
  /\ obsOwner = "AnimationController"
  /\ revOp.op = "callback"
  /\ revOp.fired = <<"e1">>
  /\ {"fade-in", "slide-in-left"} \subseteq elems["e1"].classes


-----------------------------------------------------------------------------
(***************************************************************************)
(* Claims about the typewriter sessions of reveal targets                  *)
(***************************************************************************)

\* A step that ran the typeChar closure of a typewriter session.
TypingStep == revOp'.op \in {"timer:typeChar", "timer:scrollChar"}

\* A typeChar timer of element e is pending.
TypingPending(e) ==
  \E i \in DOMAIN timers :
    timers[i].el = e /\ timers[i].kind \in {"typeChar", "scrollChar"}

\* C6 -- Session invalidation. A typeChar step of a session that is not the
\* one started last on its element leaves the element's text alone; an
\* element on which a session was started shows a prefix of the text of the
\* session started last, and that whole text once no typing step is pending.
C6_SessionInvalidation ==
  /\ [][(TypingStep /\ timers # <<>>) =>
          LET tm == timers[NextTimer]
          IN tm.sid # elems[tm.el].session =>
               elems'[tm.el].text = elems[tm.el].text]_vars
  /\ [](\A e \in Elements :
          elems[e].session > 0 =>
            /\ IsPrefix(elems[e].text, elems[e].sessionText)
            /\ ~TypingPending(e) => elems[e].text = elems[e].sessionText)

\* A step that called a typewriter trigger for element e: the observer
\* callback handling e, animate(e, 'typewriter'), or a direct call of
\* triggerTypewriter / triggerScrollTypewriter.
TypewriterTrigger(e) ==
  \/ /\ revOp'.op = "callback"
     /\ \E i \in DOMAIN revOp'.fired : revOp'.fired[i] = e
     /\ elems[e].classes \cap {"typewriter", "typewriter-scroll"} # {}
  \/ /\ revOp'.op \in {"animate:typewriter", "triggerTypewriter",
                       "triggerScrollTypewriter"}
     /\ revOp'.el = e

\* C7 -- Duplicate trigger is a no-op. A typewriter trigger on an element
\* that is marked animated starts no session, does not clear the element's
\* text and schedules no timer.
C7_DuplicateTriggerNoOp ==
  [][\A e \in Elements :
       (elems[e].animated /\ TypewriterTrigger(e)) =>
         /\ sessions' = sessions
         /\ timers' = timers
         /\ elems[e].text # "" => elems'[e].text # ""]_vars

\* A step that called the trigger of reveal kind k for element e: the
\* observer callback handling an element of class k, animate(e, ...) or a
\* direct call.
Triggered(e, k) ==
  \/ /\ revOp'.op = "callback"
     /\ \E i \in DOMAIN revOp'.fired : revOp'.fired[i] = e
     /\ k \in elems[e].classes
     /\ k \in {"typewriter", "typewriter-scroll"} => ~elems[e].animated
  \/ /\ revOp'.el = e
     /\ \/ k = "fade-in" /\ revOp'.op = "animate:fade"
        \/ k = "typewriter"
             /\ revOp'.op \in {"animate:typewriter", "triggerTypewriter"}
        \/ k = "typewriter-scroll" /\ revOp'.op = "triggerScrollTypewriter"

\* The text a typewriter session of kind k on element e ends with: the text
\* handed to triggerTypewriter, or the data-text attribute (else the
\* content) for triggerScrollTypewriter.
FinalText(e, k) ==
  IF k = "typewriter-scroll"
    THEN {IF elems[e].dataText # "" THEN elems[e].dataText ELSE elems[e].text}
    ELSE IF revOp'.op = "triggerTypewriter" THEN TriggerTexts
    ELSE {elems[e].text}

\* C12 -- Reduced-motion short-circuit. With reducedMotion set, a trigger
\* of any reveal kind schedules no timer and leaves the element in the
\* state the animation ends in: visible with opacity 1 for the five reveal
\* classes, the whole text and no cursor for the two typewriter kinds.
C12_ReducedMotionTerminal ==
  [][\A e \in Elements :
       \A k \in {"fade-in", "slide-in-left", "fade-in-stagger", "pulse-glow",
                 "skill-reveal", "typewriter", "typewriter-scroll"} :
         (reducedMotion /\ Triggered(e, k)) =>
           /\ timers' = timers
           /\ k \notin {"typewriter", "typewriter-scroll"} =>
                /\ "visible" \in elems'[e].classes
                /\ elems'[e].opacity = "1"
           /\ k \in {"typewriter", "typewriter-scroll"} =>
                /\ elems'[e].text \in FinalText(e, k)
                /\ elems'[e].borderRight = "none"]_vars

\* C22: animate(element, type) with a type other than 'glitch', 'typewriter'
\* or 'fade' changes nothing: the element's classes, text and styles stay as
\* they were and no timer is scheduled.
C22_UnknownKindNoOp ==
  [][(\E e \in Elements :
        revOp' = [op |-> "animate:spin", el |-> e, fired |-> <<>>]) =>
       /\ elems' = elems
       /\ timers' = timers
       /\ sessions' = sessions
    ]_vars

\* animate(e1, 'spin') has run on a target that is not yet visible while a
\* typewriter session of that element has a step pending.
C22_Witness ==
  /\ revOp.op = "animate:spin"
  /\ revOp.el = "e1"
  /\ "visible" \notin elems["e1"].classes
  /\ timers # <<>>

\* A step that starts a reveal animation on element e: the element gets its
\* visible marker, or a typewriter session is started on it.
RevealStarted(e) ==
  \/ "visible" \in elems'[e].classes /\ "visible" \notin elems[e].classes
  \/ elems'[e].session > elems[e].session

\* C26: a reveal animation (visible marker or typewriter session) starts on
\* an element only in a run of the observer's callback that handles an
\* intersecting entry of that very element.
C26_OnlyViaCallback ==
  [][\A e \in Elements :
       RevealStarted(e) =>
         /\ revOp'.op = "callback"
         /\ \E i \in DOMAIN revOp'.fired : revOp'.fired[i] = e
    ]_vars

-----------------------------------------------------------------------------
(***************************************************************************)
(* Claims about one typewriter session on one element (SpecType)           *)
(***************************************************************************)

\* The element of the session.
Typed == elems["e1"]

\* A step in which the displayed text becomes the session's full text.
BecomesFull ==
  /\ Typed.session > 0
  /\ elems'["e1"].session = Typed.session
  /\ Typed.text # Typed.sessionText
  /\ elems'["e1"].text = Typed.sessionText

\* C11 as claimed -- for "B4Y0N3TTA" at 100 ms per character the displayed
\* text becomes the full string 9*100+500 = 1400 ms after the trigger and
\* not earlier.
C11_FullAt1400 ==
  [][(BecomesFull /\ Typed.sessionText = "B4Y0N3TTA"
        /\ timers # <<>> /\ timers[NextTimer].kind = "typeChar"
        /\ timers[NextTimer].speed = 100)
       => clock' - Typed.sessionStart = 9 * 100 + typewriterStartDelay]_vars

\* C11 amended -- the first character appears typewriterStartDelay after
\* the trigger and one more every speed ms, so a text of n >= 1 characters
\* becomes full (n-1)*speed + 500 ms after the trigger (1300 ms for
\* "B4Y0N3TTA" at 100 ms) and at no earlier time; until then the shown text
\* is a proper prefix growing by one character per step; once full it is
\* never changed again; the step that ends the session runs speed ms later
\* (at 1400 ms) and only sets the cursor animation.
C11_FullAt1300 ==
  [][\A n \in {Len(Typed.sessionText)} :
       "typewriter-active" \in Typed.classes \/
       /\ BecomesFull =>
            /\ clock' - Typed.sessionStart
                 = (n - 1) * timers[NextTimer].speed + typewriterStartDelay
            /\ (Typed.sessionText = "B4Y0N3TTA"
                  /\ timers[NextTimer].speed = 100)
                 => clock' - Typed.sessionStart = 1300
       /\ (Typed.session > 0 /\ Typed.text = Typed.sessionText)
            => /\ elems'["e1"].text = Typed.text
               /\ (timers' = <<>> /\ timers # <<>>) =>
                    /\ clock' - Typed.sessionStart
                         = n * timers[NextTimer].speed + typewriterStartDelay
                    /\ elems'["e1"].animation
                         = "blink-caret 0.75s step-end infinite"
       /\ (Typed.session > 0 /\ elems'["e1"].text # Typed.text)
            => elems'["e1"].text
                 = SubSeq(Typed.sessionText, 1, Len(Typed.text) + 1)]_vars

\* "B4Y0N3TTA" at 100 ms per character, triggered 250 ms into the page's
\* life, is fully shown and the session has ended.
C11_Witness ==
  /\ Typed.sessionText = "B4Y0N3TTA"
  /\ Typed.text = "B4Y0N3TTA"
  /\ Typed.sessionStart = 250
  /\ clock = 250 + 1400
  /\ timers = <<>>

\* The fixed start delay of the session of the step that is being taken.
StartDelay ==
  IF timers[NextTimer].kind = "typeChar" THEN 500 ELSE 300

\* C25 as claimed -- during a single typewriter-once or typewriter-scroll
\* session the shown text is a prefix of the target, its length never
\* decreases, each delayed step adds exactly one character, the first
\* character appears only after the start delay (500 ms, 300 ms), and once
\* the full text is shown the session schedules no further step.
C25_NoStepAfterFull ==
  [][elems'["e1"].session > 0 =>
       /\ IsPrefix(elems'["e1"].text, elems'["e1"].sessionText)
       /\ Typed.session > 0 => Len(elems'["e1"].text) >= Len(Typed.text)
       /\ TypingStep =>
            /\ Len(elems'["e1"].text) = Len(Typed.text) + 1
            /\ Len(Typed.text) = 0 =>
                 clock' - Typed.sessionStart >= StartDelay
       /\ elems'["e1"].text = elems'["e1"].sessionText => timers' = <<>>
    ]_vars

\* C25 amended -- the shown text is a prefix of the target, its length never
\* decreases, each delayed step of a session whose text is not yet full adds
\* exactly one character and schedules the next step, the first character
\* appears only after the start delay (500 ms, 300 ms); the step that shows
\* the full text still schedules one more step, and that last step changes
\* no text, ends the cursor handling and schedules nothing.
C25_OneStepAfterFull ==
  [][elems'["e1"].session > 0 =>
       /\ IsPrefix(elems'["e1"].text, elems'["e1"].sessionText)
       /\ Typed.session > 0 => Len(elems'["e1"].text) >= Len(Typed.text)
       /\ (TypingStep /\ Typed.text # Typed.sessionText) =>
            /\ Len(elems'["e1"].text) = Len(Typed.text) + 1
            /\ Len(timers') = 1
            /\ Len(Typed.text) = 0 =>
                 clock' - Typed.sessionStart >= StartDelay
       /\ (TypingStep /\ Typed.text = Typed.sessionText) =>
            /\ elems'["e1"].text = Typed.text
            /\ timers' = <<>>
            /\ \/ elems'["e1"].animation
                    = "blink-caret 0.75s step-end infinite"
               \/ /\ elems'["e1"].borderRight = "none"
                  /\ "typewriter-active" \notin elems'["e1"].classes
    ]_vars

\* A typewriter-scroll session over the data-text "Rae" has shown the whole
\* text and its last step has removed the cursor.
C25_Witness ==
  /\ Typed.session > 0
  /\ Typed.sessionText = "Rae"
  /\ Typed.text = "Rae"
  /\ Typed.borderRight = "none"
  /\ "typewriter-active" \notin Typed.classes
  /\ timers = <<>>
  /\ revOp.op = "timer:scrollChar"

\* A timer of the element's session is pending.
Typing(e) == \E i \in 1..Len(timers) : timers[i].el = e

\* C31: with a session on each of two elements, however their steps
\* interleave, the text of each element is a prefix of its own session's
\* text, and once its session has no step left it is that text in full.
C31_NoInterference ==
  \A e \in Elements :
    elems[e].session > 0 =>
      /\ IsPrefix(elems[e].text, elems[e].sessionText)
      /\ ~Typing(e) => elems[e].text = elems[e].sessionText

\* Both sessions are under way, the one on "e2" having been started first,
\* and each element shows a part of its own text.
C31_Witness ==
  /\ elems["e2"].session = 1
  /\ elems["e1"].session = 2
  /\ Typing("e1") /\ Typing("e2")
  /\ elems["e1"].text = "R"
  /\ elems["e2"].text = "B4"

-----------------------------------------------------------------------------
(***************************************************************************)
(* Claims about the columns of the digital rain                            *)
(***************************************************************************)

\* C15: after any sequence of resize calls and frames, every column's speed
\* lies within [minSpeed, maxSpeed]; its position may be negative.
C15_SpeedInRange ==
  /\ Len(speeds) = columns
  /\ \A i \in 1..columns :
       /\ speeds[i] >= config.minSpeed
       /\ speeds[i] <= config.maxSpeed

\* A frame has sent a drop back to the top (and drawn its new speed) after
\* two resizes, while another column is still above the fold.
C15_Witness ==
  /\ rainOp = "tick"
  /\ resizes = 2
  /\ frames >= 3
  /\ \E i, j \in 1..columns : drops[i] = 0 /\ drops[j] < 0

\* C16: the number of columns equals floor(width / fontSize) for the width
\* of the most recent resize, and no frame tick, start or stop changes it; a
\* resize before any frame has rendered completes and leaves that count, and
\* a resize from width 1024 to width 375 leaves strictly fewer columns.
C16_ColumnCount ==
  [][/\ resizes' > 0 => columns' = canvasWidth' \div config'.fontSize
     /\ rainOp' \in {"tick", "start", "stop"} => columns' = columns
     /\ (rainOp' = "resize" /\ frames = 0) =>
          /\ resizes' = resizes + 1
          /\ Len(drops') = columns' /\ Len(speeds') = columns'
          /\ Len(characters') = columns'
          /\ Len(charChangeCounters') = columns'
     /\ (resizes > 0 /\ canvasWidth = 1024 /\ rainOp' = "resize"
           /\ canvasWidth' = 375) => columns' < columns
    ]_vars

\* A second resize, to width 375 and before any frame was drawn, has left
\* eighteen columns of twenty pixels.
C16_Witness ==
  /\ rainOp = "resize"
  /\ resizes = 2
  /\ frames = 0
  /\ canvasWidth = 375
  /\ config.fontSize = 20
  /\ columns = 18

\* The characters of the configured alphabet.
Alphabet == { config.characters[k] : k \in 1..Len(config.characters) }

\* C17: after any sequence of resize calls and frames, every column's stored
\* glyph and every glyph painted belongs to config.characters.
C17_OnlyAlphabet ==
  /\ Len(characters) = columns
  /\ \A i \in 1..columns : characters[i] \in Alphabet
  /\ \A k \in 1..Len(painted) : painted[k] \in Alphabet

\* A frame has just replaced the glyph of a column (its change counter was
\* set anew to its largest value) and painted every column.
C17_Witness ==
  /\ rainOp = "tick"
  /\ columns > 1
  /\ Len(painted) = columns
  /\ \E i \in 1..columns :
       /\ charChangeCounters[i] = 14
       /\ painted[i] = characters[i]

\* C27: right after every resize, whatever the renderer's state (never
\* started, running, stopped) and however many resizes came before, each of
\* the four arrays holds exactly one fresh entry per column of the new
\* count: a position in [-100, 0], a speed in [minSpeed, maxSpeed], a glyph
\* of the alphabet and a change counter in [5, 15].
C27_FreshColumns ==
  rainOp = "resize" =>
    /\ columns = canvasWidth \div config.fontSize
    /\ DOMAIN drops = 1..columns
    /\ DOMAIN speeds = 1..columns
    /\ DOMAIN characters = 1..columns
    /\ DOMAIN charChangeCounters = 1..columns
    /\ \A i \in 1..columns :
         /\ drops[i] >= -100 * RowUnit /\ drops[i] <= 0
         /\ speeds[i] >= config.minSpeed /\ speeds[i] <= config.maxSpeed
         /\ characters[i] \in Alphabet
         /\ charChangeCounters[i] \in 5..15

\* A second resize has run on a renderer that was started, drew frames and
\* was stopped.
C27_Witness ==
  /\ rainOp = "resize"
  /\ resizes = 2
  /\ frames >= 2
  /\ ~isRunning
  /\ afterStop
  /\ columns = 51

\* A step in which draw() ran.
FrameStep == frames' = frames + 1

\* C28: in each frame every column either moves down by exactly its speed
\* and keeps that speed, or is put back to 0 with a newly drawn speed; it is
\* put back only if before the move its glyph was painted below the bottom
\* edge (position * fontSize > canvas height).
C28_AdvanceOrReset ==
  [][FrameStep =>
       /\ columns' = columns
       /\ DOMAIN drops' = 1..columns
       /\ \A i \in 1..columns :
            \/ /\ drops'[i] = drops[i] + speeds[i]
               /\ speeds'[i] = speeds[i]
            \/ /\ drops'[i] = 0
               /\ drops[i] * config.fontSize > canvasHeight * RowUnit
               /\ speeds'[i] >= config.minSpeed
               /\ speeds'[i] <= config.maxSpeed
    ]_vars

\* With 16-pixel glyphs on a canvas 20 pixels high, a frame has put the
\* column that had fallen below the bottom edge back to the top, while the
\* other column, still above the field, has moved down by its speed.
C28_Witness ==
  /\ rainOp = "tick"
  /\ surface = "frame"
  /\ config.fontSize = 16
  /\ canvasHeight = 20
  /\ columns = 2
  /\ \E i, j \in 1..columns :
       /\ drops[i] = 0
       /\ drops[j] < 0
       /\ drops[j] > -100 * RowUnit + speeds[j]

\* C30: in each frame every column's change counter goes down by one; when
\* it reaches zero the glyph is drawn anew and the counter is set to a value
\* in [5, 15], otherwise the glyph stays; between frames every counter is at
\* least 1.
C30_GlyphCountdown ==
  /\ [](\A i \in 1..columns : charChangeCounters[i] >= 1)
  /\ [][FrameStep =>
          \A i \in 1..columns :
            IF charChangeCounters[i] - 1 = 0
              THEN /\ charChangeCounters'[i] \in 5..15
                   /\ characters'[i] \in Alphabet
              ELSE /\ charChangeCounters'[i] = charChangeCounters[i] - 1
                   /\ characters'[i] = characters[i]
       ]_vars

\* After six frames one column has had its glyph drawn anew (its counter is
\* back above 4) while another is still counting down.
C30_Witness ==
  /\ rainOp = "tick"
  /\ frames = 6
  /\ resizes = 1
  /\ \E i, j \in 1..columns :
       /\ charChangeCounters[i] >= 13
       /\ charChangeCounters[j] <= 4

\* Column i has been painted below the bottom edge, or is inside the field.
Below(i) ==
  i <= columns /\ drops[i] * config.fontSize > canvasHeight * RowUnit

InField(i) ==
  /\ i <= columns
  /\ drops[i] >= 0
  /\ drops[i] * config.fontSize <= canvasHeight * RowUnit

\* C29: while frames keep being drawn and the random reset choice is fair,
\* every column that has passed the bottom edge is eventually put back to
\* the top: no column stays below the field for ever, and every column is
\* inside the visible field again and again.
C29_EventuallyReset ==
  \A i \in 1..2 :
    /\ Below(i) ~> ~Below(i)
    /\ []<>(i > columns \/ InField(i))

\* One column is back at the top after a reset while the other has fallen
\* far below the bottom edge.
C29_Witness ==
  /\ rainOp = "frame"
  /\ frames = MaxFrames
  /\ columns = 2
  /\ \E i, j \in 1..2 :
       /\ drops[i] = 0
       /\ drops[j] = MaxFallRows * RowUnit

-----------------------------------------------------------------------------
(***************************************************************************)
(* Claims about the tilt of the project cards                              *)
(***************************************************************************)

\* The card's handler ran to its end on the event handled last.
TiltHandled == tiltWired /\ ~tiltReduced

\* Twice the pointer's offset from the center of the box, per axis; the
\* normalized offsets are these over the width and the height.
OffsetX2 == 2 * (tiltOp.clientX - tiltOp.rect.left) - tiltOp.rect.width

OffsetY2 == 2 * (tiltOp.clientY - tiltOp.rect.top) - tiltOp.rect.height

\* C18: on a pointer move inside the card's bounding box the normalized
\* offsets (clientX - centerX) / (width / 2) and (clientY - centerY) /
\* (height / 2) lie in [-1, 1], and the card gets rotateY = normalizedX *
\* maxTilt and rotateX = -normalizedY * maxTilt; a 200x200 card centred at
\* (100, 100) with the pointer at (200, 100) has offset (1, 0), rotateY = 15
\* and rotateX = 0.
C18_TiltComputation ==
  (tiltOp.op = "move" /\ TiltHandled) =>
    LET t == cards[tiltOp.card].transform
        w == tiltOp.rect.width
        h == tiltOp.rect.height
    IN /\ -w <= OffsetX2 /\ OffsetX2 <= w
       /\ -h <= OffsetY2 /\ OffsetY2 <= h
       /\ t.isSet
       /\ t.rotateY.num * w = OffsetX2 * maxTilt * t.rotateY.den
       /\ t.rotateX.num * h = -(OffsetY2 * maxTilt) * t.rotateX.den
       /\ (/\ tiltOp.rect = [left |-> 0, top |-> 0, width |-> 200,
                             height |-> 200]
           /\ tiltOp.clientX = 200
           /\ tiltOp.clientY = 100)
            => /\ OffsetX2 = w
               /\ OffsetY2 = 0
               /\ t.rotateY = [num |-> maxTilt, den |-> 1]
               /\ maxTilt = 15
               /\ t.rotateX = [num |-> 0, den |-> 1]

\* The pointer has moved to (200, 100) over a 200x200 card centred at
\* (100, 100) and the card is tilted by 15 degrees about the Y axis.
C18_Witness ==
  /\ tiltOp.op = "move"
  /\ TiltHandled
  /\ tiltOp.rect = [left |-> 0, top |-> 0, width |-> 200, height |-> 200]
  /\ tiltOp.clientX = 200
  /\ tiltOp.clientY = 100
  /\ cards[tiltOp.card].transform.rotateY = [num |-> 15, den |-> 1]
  /\ cards[tiltOp.card].transform.rotateX = [num |-> 0, den |-> 1]

\* A transform that leaves the card flat and unscaled.
NoTilt(t) == t.rotateX.num = 0 /\ t.rotateY.num = 0 /\ t.scale = 100

\* C19: whatever the sequence of pointer events (enter, move, leave) and
\* reduced-motion preference changes, while reduced motion is preferred no
\* pointer event changes a card's transform or transition and no card
\* carries a tilt.
C19_NoTiltUnderReducedMotion ==
  [][(tiltPhase' # "destroyed" /\ prefersReduced') =>
       /\ \A c \in Cards : NoTilt(cards'[c].transform)
       /\ tiltOp'.op \in {"enter", "move", "leave"} => cards' = cards
    ]_vars

\* The preference has changed to reduced motion while a card was tilted, and
\* the pointer has then moved over that card.
C19_Witness ==
  /\ prefersReduced
  /\ tiltReduced
  /\ tiltPhase = "ready"
  /\ tiltOp.op = "move"
  /\ tiltOp.clientX = tiltOp.rect.left + tiltOp.rect.width
  /\ cards[tiltOp.card].transform = NoTransform

\* C20: with reduced motion not active, a pointer-leave gives the card the
\* neutral transform (rotateX 0, rotateY 0, scale 1) whatever its tilt was,
\* with a 0.3 s transition, longer than the 0.1 s transition a
\* pointer-enter sets.
C20_LeaveResets ==
  [][/\ (tiltOp'.op = "enter" /\ tiltWired /\ ~tiltReduced) =>
          cards'[tiltOp'.card].transition = Transition(TRUE, 100)
     /\ (tiltOp'.op = "leave" /\ tiltWired /\ ~tiltReduced) =>
          /\ cards'[tiltOp'.card].transform = NeutralTransform
          /\ cards'[tiltOp'.card].transition = Transition(TRUE, 300)
          /\ cards[tiltOp'.card].transition = Transition(TRUE, 100) =>
               cards'[tiltOp'.card].transition.duration >
                 cards[tiltOp'.card].transition.duration
    ]_vars

\* The pointer has left a card that was tilted under the 0.1 s transition.
C20_Witness ==
  /\ tiltOp.op = "leave"
  /\ TiltHandled
  /\ ~NoTilt(tiltOp.before[tiltOp.card].transform)
  /\ tiltOp.before[tiltOp.card].transition = Transition(TRUE, 100)
  /\ cards[tiltOp.card].transform = NeutralTransform

\* C39: after destroy() the mousemove, mouseenter and mouseleave events of a
\* card that had been registered change neither its transform nor its
\* transition.
C39_DestroyDetaches ==
  [][(tiltPhase = "destroyed" /\ tiltOp'.op \in {"enter", "move", "leave"})
       => cards'[tiltOp'.card] = cards[tiltOp'.card]]_vars

-----------------------------------------------------------------------------
(***************************************************************************)
(* Claims about the start-up script and the contact form                   *)
(***************************************************************************)

\* The component has everything it needs: its class, its elements and, for
\* the rain, a user who allows motion.
Equipped(c) ==
  /\ ClassOf[c] \in present
  /\ ElementsOf[c] \subseteq present
  /\ c = "digitalRain" => ~prefersReduced

\* C21: once the start-up has run and no timer of it is left, every
\* component whose class and elements are present has been set up, whatever
\* else is missing, and no component that lacks one has been.
C21_MissingCollaborator ==
  bootPhase = <<>> => wired = {c \in Components : Equipped(c)}

\* C23: when a simulated submission completes, the form message reads
\* 'Message sent successfully!' and carries 'visible' and 'success', and all
\* fields are empty.
C23_SuccessShown ==
  [][formOp'.kind = "done" =>
       /\ formMessage'.textContent = "Message sent successfully!"
       /\ {"visible", "success"} \subseteq formMessage'.classes
       /\ \A f \in Fields : fields'[f].value = <<>>]_vars

\* The field's value is empty or whitespace only or, for the email, does not
\* match the pattern.
Invalid(f, v) ==
  \/ \A k \in 1..Len(v) : v[k] = " "
  \/ f = "email" /\ ~emailRegex(v)

\* C24: after handleSubmit exactly the invalid fields carry the class
\* 'error' and a visible, non-empty message, every valid field carries
\* neither, and submit() was called if and only if no field is invalid.
C24_ErrorDisplay ==
  [][formOp'.kind = "submit" =>
       /\ \A f \in Fields :
            IF Invalid(f, fields[f].value)
              THEN /\ fields'[f].error
                   /\ errors'[f].visible
                   /\ errors'[f].textContent # ""
              ELSE /\ ~fields'[f].error
                   /\ ~errors'[f].visible
                   /\ errors'[f].textContent = ""
       /\ formOp'.submitted <=> \A f \in Fields : ~Invalid(f, fields[f].value)
    ]_vars

\* C35: at any time at most one running renderer drives the canvas: the
\* handler of js/digital-rain.js and the start-up script's initDigitalRain
\* never both have a started DigitalRainRenderer on it.
C35_SingleRenderer ==
  ~(digitalRainInstance = "started" /\ "digitalRain" \in wired)

\* C34: with the entry sequence of part_000, a visual component (digital
\* rain, navigation, scroll observer, animation controller, project cards)
\* is set up, and a rain renderer is started, only once the matrix entry has
\* completed (its loop stopped and its overlay hidden), and the rain is not
\* set up a second time.
C34_EntryOrdering ==
  bootScript = "part_000" =>
    /\ (wired \cap LateComponents # {} \/ digitalRainInstance = "started")
         => "entry-none" \in screen
    /\ digitalRainInstance = "started" => "digitalRain" \notin wired

-----------------------------------------------------------------------------
=============================================================================
